---- MODULE Spec2Model ----
(***************************************************************************)
(* Model of the toast engine: the Registry (useCore), the Factory          *)
(* (useToast), the Container Coordinator (useContainer + the container     *)
(* component) and the Notification Lifecycle Controller (useCreate).       *)
(*                                                                         *)
(* Indices are 0-based as in the source; At(s, k) reads a sequence the     *)
(* way toasts.value[k] does.  Durations are held in centiseconds, so that  *)
(* options.duration * 100 (the number of 10 ms ticks) is the stored value. *)
(***************************************************************************)
EXTENDS Integers, Sequences, FiniteSets, TLC

\* ------------------------------------------------------------------ bounds
MaxOps == 4          \* Registry operations in RegistrySpec
MaxCount == 7        \* largest count probed in RoleSpec
LifeToasts == 1      \* notifications created in Spec (every option combination)
StackToasts == 4     \* notifications created in StackSpec (plain options)
MaxClears == 2       \* clear() calls in Spec
StackClears == 1     \* clear() calls in StackSpec
WatchToasts == 5     \* notifications created in WatchSpec
ClearToasts == 3     \* notifications created in ClearSpec
Scale == 100         \* progress is kept in units of 1/Scale percent

Containers == {"main", "aux"}
RegIds == {1, 2, 3}
Modes == {"default", "sticky"}
Durations == {0, 2, 3}
Max(a, b) == IF a > b THEN a ELSE b
Ids == 1..Max(LifeToasts, Max(StackToasts, WatchToasts))
Box == "main"        \* the container the notifications are created in
AllOptions == [mode : Modes, duration : Durations, closable : BOOLEAN,
               onClick : BOOLEAN, onAction : BOOLEAN]

VARIABLES
    toasts,     \* Registry: container -> insertion-ordered records (Map of Map)
    addedAt,    \* history: when each live identifier was inserted (0: not live)
    clock,      \* history: number of Registry operations so far
    probe,      \* RoleSpec: the (index, count, collapsed) under evaluation
    phase,      \* per notification: absent, created, mounted, unmounted
    loaded, paused, closing, loading, progress, interval,
    enter,      \* enter transition: none, animating, resolving, done, error, ignored
    leave,      \* pending leave promises: records of close reason and status
    handler,    \* pending click/action promise: none, click, action
    applied,    \* the stacking directive whose transition ran last
    collapsed,  \* Container Coordinator: collapsed flag
    timers,     \* pending clear() timeouts: per call, identifiers and delays
    clears,     \* number of clear() calls so far
    closed,     \* history per notification: the reasons onClose was invoked with
    events,     \* history per notification: _close calls and their effects
    advances,   \* history per notification: ticks that advanced progress
    sent,       \* history: the last broadcast of the container component
    settled,    \* history per notification: how its last handler promise settled
    options,    \* Registry: container -> stored override (Unset: no entry)
    defaultOptions, \* the global default options
    installed,  \* whether the plugin provided the Registry to the application
    isMobile,   \* whether the viewport is a constrained one
    storage,    \* the persisted collapse preference of the container's name
    marker,     \* per container: the configured body class (None: not configured)
    seen,       \* per container: the count its watcher ran for last
    body,       \* the classes on the document body
    peer,       \* the coordinator of the second container: flag, storage, timeouts
    tracing     \* whether the histories events and advances are recorded

vars == <<toasts, addedAt, clock, probe, phase, loaded, paused, closing,
          loading, progress, interval, enter, leave, handler,
          applied, collapsed, timers, clears, closed, events, advances, sent,
          settled, options, defaultOptions, installed, isMobile, storage, marker,
          seen, body, peer, tracing>>

\* The state outside the notifications: configuration, viewport, storage, body.
hostRest == <<options, defaultOptions, installed, isMobile, marker, seen, body, peer>>
hostVars == <<hostRest, storage>>

\* ----------------------------------------------------------------- helpers
\* An absent string value (undefined).  A leaf of an options object and a Map
\* entry are held as sequences: <<>> when absent, <<v>> when present.
None == "none"
Absent == <<>>
Unset == <<>>

\* A coordinator of another container, just constructed on a wide viewport
\* with nothing stored.
Apart == [collapsed |-> FALSE, storage |-> None, timers |-> <<>>, clears |-> 0]

At(s, k) == s[k + 1]

Min(a, b) == IF a < b THEN a ELSE b

Count(s, x) == Cardinality({k \in 1..Len(s) : s[k] = x})

First(s, x) == IF \E k \in 1..Len(s) : s[k] = x
               THEN CHOOSE k \in 1..Len(s) : s[k] = x /\ \A j \in 1..(k - 1) : s[j] # x
               ELSE 0

IndexOf(s, id) == IF \E k \in 1..Len(s) : s[k].identifier = id
                  THEN CHOOSE k \in 1..Len(s) : s[k].identifier = id
                  ELSE 0

\* ---------------------------------------------------------------- Registry
Toast(id, c, o) ==
    [identifier |-> id, container |-> c, mode |-> o.mode, duration |-> o.duration,
     closable |-> o.closable, onClick |-> o.onClick, onAction |-> o.onAction]

Plain(mode) == [mode |-> mode, duration |-> 0, closable |-> TRUE,
                onClick |-> FALSE, onAction |-> FALSE]

addToastMoved(ts, container, toast) ==
    LET cur == IF container \in DOMAIN ts THEN ts[container] ELSE <<>>
        new == Append(SelectSeq(cur, LAMBDA t : t.identifier # toast.identifier), toast)
    IN  [x \in DOMAIN ts \cup {container} |-> IF x = container THEN new ELSE ts[x]]

\* Map.set keeps the position of a key that is present and appends a new one.
addToast(ts, container, toast) ==
    LET cur == IF container \in DOMAIN ts THEN ts[container] ELSE <<>>
        pos == IndexOf(cur, toast.identifier)
        new == IF pos = 0 THEN Append(cur, toast) ELSE [cur EXCEPT ![pos] = toast]
    IN  [x \in DOMAIN ts \cup {container} |-> IF x = container THEN new ELSE ts[x]]

removeToastCreating(ts, container, toastId) ==
    IF container \in DOMAIN ts
    THEN [ts EXCEPT ![container] = SelectSeq(@, LAMBDA t : t.identifier # toastId)]
    ELSE [x \in DOMAIN ts \cup {container} |-> IF x = container THEN <<>> ELSE ts[x]]

\* toasts.value.get(container)?.delete(toastId)
removeToast(ts, container, toastId) ==
    IF container \in DOMAIN ts
    THEN [ts EXCEPT ![container] = SelectSeq(@, LAMBDA t : t.identifier # toastId)]
    ELSE ts

toastsOf(ts, container) == IF container \in DOMAIN ts THEN ts[container] ELSE <<>>

getContainerToasts(container) == toastsOf(toasts, container)

\* --------------------------------------------------- Registry: options
\* The object {} as far as the Factory reads it.
EmptyOptions == [duration |-> Absent, closable |-> Absent]

\* a ?? b
coalesce(a, b) == IF a # Absent THEN a ELSE b

\* mergeConfig(base, over): the leaves of over where it has them.
mergeConfig(base, over) == [k \in DOMAIN base |-> coalesce(over[k], base[k])]

\* An argument: an object, undefined (omitted) or another non-object.
Object(v) == [kind |-> "object", value |-> v]
Omitted == [kind |-> "undefined", value |-> EmptyOptions]
NonObject == [kind |-> "null", value |-> EmptyOptions]

isObject(arg) == arg.kind = "object"

\* option: Partial<ContainerOption> = {}
orEmpty(arg) == IF arg.kind = "undefined" THEN Object(EmptyOptions) ELSE arg

setOptionsMerged(os, container, arg) ==
    IF isObject(orEmpty(arg))
    THEN [os EXCEPT ![container] =
             <<IF @ = Unset THEN orEmpty(arg).value ELSE mergeConfig(@[1], orEmpty(arg).value)>>]
    ELSE [os EXCEPT ![container] = Unset]

setOptions(os, container, arg) ==
    IF isObject(orEmpty(arg))
    THEN [os EXCEPT ![container] = <<orEmpty(arg).value>>]
    ELSE [os EXCEPT ![container] = Unset]

optionsOf(os, container) ==
    IF container \in DOMAIN os /\ os[container] # Unset THEN os[container][1] ELSE EmptyOptions

getOptions(container) == optionsOf(options, container)

injectCoreLenient(provided) == [threw |-> FALSE, core |-> "core"]
\* injectCore: the provided instance, or an Error thrown.
injectCore(provided) ==
    IF provided THEN [threw |-> FALSE, core |-> "core"] ELSE [threw |-> TRUE, core |-> None]

FallbackDuration == 500  \* ?? 5 in create: 5 seconds, in ticks

createContainerFirst(call, stored, defaults) ==
    LET config == mergeConfig(defaults, stored)
    IN  [mode |-> call.mode,
         duration |-> coalesce(config.duration, coalesce(call.duration, <<FallbackDuration>>))[1],
         closable |-> coalesce(config.closable, coalesce(call.closable, <<TRUE>>))[1],
         onClick |-> call.onClick, onAction |-> call.onAction]

\* useToast.create: the params of the record, from the call-site options, the
\* container override and the global defaults.
create(call, stored, defaults) ==
    LET config == mergeConfig(defaults, stored)
    IN  [mode |-> call.mode,
         duration |-> coalesce(call.duration, coalesce(config.duration, <<FallbackDuration>>))[1],
         closable |-> coalesce(call.closable, coalesce(config.closable, <<TRUE>>))[1],
         onClick |-> call.onClick, onAction |-> call.onAction]

\* ------------------------------------------------------------------- roles
isActive(index, count, isCollapsed) == ~isCollapsed \/ index = count - 1
isSecondary(index, count, isCollapsed) == isCollapsed /\ index = count - 2
isTertiary(index, count, isCollapsed) == isCollapsed /\ index = count - 3
isHiddenLoose(index, count, isCollapsed) == isCollapsed /\ index <= count - 3
isHidden(index, count, isCollapsed) == isCollapsed /\ index < count - 3

Roles(index, count, isCollapsed) ==
    {r \in {"active", "secondary", "tertiary", "hidden"} :
        \/ r = "active" /\ isActive(index, count, isCollapsed)
        \/ r = "secondary" /\ isSecondary(index, count, isCollapsed)
        \/ r = "tertiary" /\ isTertiary(index, count, isCollapsed)
        \/ r = "hidden" /\ isHidden(index, count, isCollapsed)}

\* ----------------------------------------------- Container Coordinator: emits
Emit(ts, k, state) == <<[to |-> At(ts, k).identifier, state |-> state]>>

RECURSIVE EmitEach(_, _, _)
EmitEach(ts, k, state) ==
    IF k >= Len(ts) - 3 THEN <<>>
    ELSE Emit(ts, k, state) \o EmitEach(ts, k + 1, state)

toggleCollapseOneHide(ts, isCollapsed) ==
    IF isCollapsed
    THEN [k \in 1..Len(ts) |-> [to |-> ts[k].identifier, state |-> "activate"]]
    ELSE (IF Len(ts) > 1 THEN Emit(ts, Len(ts) - 2, "secondary") ELSE <<>>)
         \o (IF Len(ts) > 2 THEN Emit(ts, Len(ts) - 3, "tertiary") ELSE <<>>)
         \o (IF Len(ts) > 3 THEN Emit(ts, Len(ts) - 4, "hide") ELSE <<>>)

toggleCollapseBelowTop(ts, isCollapsed) ==
    IF isCollapsed
    THEN [k \in 1..(Len(ts) - 1) |-> [to |-> ts[k].identifier, state |-> "activate"]]
    ELSE (IF Len(ts) > 1 THEN Emit(ts, Len(ts) - 2, "secondary") ELSE <<>>)
         \o (IF Len(ts) > 2 THEN Emit(ts, Len(ts) - 3, "tertiary") ELSE <<>>)
         \o (IF Len(ts) > 3 THEN EmitEach(ts, 0, "hide") ELSE <<>>)

\* What toggleCollapse broadcasts, in order, before it flips the flag.
toggleCollapse(ts, isCollapsed) ==
    IF isCollapsed
    THEN [k \in 1..Len(ts) |-> [to |-> ts[k].identifier, state |-> "activate"]]
    ELSE (IF Len(ts) > 1 THEN Emit(ts, Len(ts) - 2, "secondary") ELSE <<>>)
         \o (IF Len(ts) > 2 THEN Emit(ts, Len(ts) - 3, "tertiary") ELSE <<>>)
         \o (IF Len(ts) > 3 THEN EmitEach(ts, 0, "hide") ELSE <<>>)

onAddNoHide(ts, isCollapsed) ==
    IF ~isCollapsed THEN <<>>
    ELSE (IF Len(ts) > 1 THEN Emit(ts, Len(ts) - 2, "secondary") ELSE <<>>)
         \o (IF Len(ts) > 2 THEN Emit(ts, Len(ts) - 3, "tertiary") ELSE <<>>)

onAdd(ts, isCollapsed) ==
    IF ~isCollapsed THEN <<>>
    ELSE (IF Len(ts) > 1 THEN Emit(ts, Len(ts) - 2, "secondary") ELSE <<>>)
         \o (IF Len(ts) > 2 THEN Emit(ts, Len(ts) - 3, "tertiary") ELSE <<>>)
         \o (IF Len(ts) > 3 THEN Emit(ts, Len(ts) - 4, "hide") ELSE <<>>)

onRemove(ts, isCollapsed) ==
    IF ~isCollapsed THEN <<>>
    ELSE (IF Len(ts) > 1 THEN Emit(ts, Len(ts) - 2, "activate") ELSE <<>>)
         \o (IF Len(ts) > 2 THEN Emit(ts, Len(ts) - 3, "secondary") ELSE <<>>)
         \o (IF Len(ts) > 3 THEN Emit(ts, Len(ts) - 4, "tertiary") ELSE <<>>)

Stagger == 75        \* milliseconds between two removals of one clear()

clearAll(ts) ==
    [k \in 1..Len(ts) |-> [to |-> ts[k].identifier, after |-> Stagger * (k - 1)]]

\* clear(): one timeout per non-sticky notification, 75 * index milliseconds
\* after the call, index counting the non-sticky ones from 0.
clear(ts) ==
    LET rest == SelectSeq(ts, LAMBDA t : t.mode # "sticky")
    IN  [k \in 1..Len(rest) |-> [to |-> rest[k].identifier, after |-> Stagger * (k - 1)]]

\* ------------------------------------------ Lifecycle Controller: definitions
Full == 100 * Scale

\* 100 / (options.duration * 100), rounded to the nearest unit of 1/Scale.
Step(duration) == (2 * 100 * Scale + duration) \div (2 * duration)

isClosableAnyMode(o) == o.duration > 0
isClosable(o) == o.mode # "sticky" /\ o.duration > 0

Opt(i) == LET ts == getContainerToasts(Box) IN ts[IndexOf(ts, i)]

InRegistry(i) == IndexOf(getContainerToasts(Box), i) > 0

\* ------------------------------------------ container: derived values
\* `${container}-${identifier}`
key(container, identifier) == <<container, identifier>>

count(container) == Len(getContainerToasts(container))

stickyCount(container) ==
    Len(SelectSeq(getContainerToasts(container), LAMBDA t : t.mode = "sticky"))

activeIdFirst(container) ==
    LET ts == getContainerToasts(container)
    IN  IF Len(ts) > 0 THEN key(ts[1].container, ts[1].identifier) ELSE Absent

\* The key of the last element of toasts.value, undefined when it is empty.
activeId(container) ==
    LET ts == getContainerToasts(container)
    IN  IF Len(ts) > 0 THEN key(ts[Len(ts)].container, ts[Len(ts)].identifier) ELSE Absent

hidden(i) ==
    LET ts == getContainerToasts(Box)
        pos == IndexOf(ts, i)
    IN  pos > 0 /\ isHidden(pos - 1, Len(ts), collapsed)

\* The listener registered at the end of onMounted and removed in onUnmounted.
subscribed(i) == phase[i] = "mounted"

onStateChangeAlways(ap, id, state) ==
    IF subscribed(id) THEN [ap EXCEPT ![id] = state] ELSE ap

\* animator.activate/secondary/tertiary/hide return at once while closing.
onStateChange(ap, id, state) ==
    IF subscribed(id) /\ ~closing[id] THEN [ap EXCEPT ![id] = state] ELSE ap

RECURSIVE Deliver(_, _)
Deliver(ap, emits) ==
    IF emits = <<>> THEN ap
    ELSE Deliver(onStateChange(ap, Head(emits).to, Head(emits).state), Tail(emits))

\* animator.enter / animator.leave: resolved "ignored" at once without an
\* element or when hidden, else the outcome of the animation.
enterStart(i) == IF hidden(i) THEN "resolving" ELSE "animating"
leaveStart(i) == IF phase[i] # "mounted" \/ hidden(i) THEN "resolving" ELSE "animating"
Outcomes(status) == IF status = "resolving" THEN {"ignored"} ELSE {"done", "error"}

Log(t, entries) == IF tracing THEN t \o entries ELSE t

\* The identifiers of toasts.value, in order.
identifiers(ts) == [k \in 1..Len(ts) |-> ts[k].identifier]

Silent == [by |-> "none", who |-> 0, was |-> FALSE, now |-> FALSE,
           list |-> <<>>, emits |-> <<>>]

\* The value of sent when the broadcasts are not recorded.
Unwatched == [Silent EXCEPT !.by = "off"]

\* One run of a container handler: which one, for which notification (0: the
\* collapse control), the collapsed flag before and after, toasts.value and
\* the directives emitted, in order.
Note(by, who, now, emits) ==
    IF sent # Unwatched
    THEN [by |-> by, who |-> who, was |-> collapsed, now |-> now,
          list |-> identifiers(getContainerToasts(Box)), emits |-> emits]
    ELSE sent

settlesUnlessError(k) == k # "error"
\* animate(...).then(resolve "done").catch(resolve "error"): the promise is
\* resolved on every outcome, so the continuation always runs.
settles(k) == TRUE

leaveUnguarded(i) == TRUE
\* animator.leave returns undefined while closing: no promise, no continuation.
leaveRuns(i) == ~closing[i]

closeTraceLate(runs, mode) ==
    IF runs THEN <<mode, "closing", "leave", "removing">> ELSE <<mode, "removing">>
\* What one _close(mode) call does, in order.
closeTrace(runs, mode) ==
    IF runs THEN <<mode, "removing", "closing", "leave">> ELSE <<mode, "removing">>

CloseByUnflagged(i, mode, via) ==
    /\ applied' = Deliver(applied, onRemove(getContainerToasts(Box), collapsed))
    /\ sent' = Note("onRemove", i, collapsed, onRemove(getContainerToasts(Box), collapsed))
    /\ events' = [events EXCEPT ![i] = Log(@, via \o closeTrace(leaveRuns(i), mode))]
    /\ closing' = closing
    /\ IF leaveRuns(i)
       THEN leave' = [leave EXCEPT ![i] = Append(@, [mode |-> mode, status |-> leaveStart(i)])]
       ELSE leave' = leave

CloseByLatest(i, mode, via) ==
    /\ applied' = Deliver(applied, onRemove(getContainerToasts(Box), collapsed))
    /\ sent' = Note("onRemove", i, collapsed, onRemove(getContainerToasts(Box), collapsed))
    /\ events' = [events EXCEPT ![i] = Log(@, via \o closeTrace(leaveRuns(i), mode))]
    /\ IF leaveRuns(i)
       THEN /\ closing' = [closing EXCEPT ![i] = TRUE]
            /\ leave' = [leave EXCEPT ![i] = Append(@, [mode |-> mode, status |-> leaveStart(i)])]
       ELSE /\ closing' = closing
            /\ leave' = [leave EXCEPT ![i] = [k \in 1..Len(@) |-> [@[k] EXCEPT !.mode = mode]]]

\* _close(mode): emit removing (the container's onRemove runs inside the emit,
\* before closing is set), then start the leave transition.
CloseBy(i, mode, via) ==
    /\ applied' = Deliver(applied, onRemove(getContainerToasts(Box), collapsed))
    /\ sent' = Note("onRemove", i, collapsed, onRemove(getContainerToasts(Box), collapsed))
    /\ events' = [events EXCEPT ![i] = Log(@, via \o closeTrace(leaveRuns(i), mode))]
    /\ IF leaveRuns(i)
       THEN /\ closing' = [closing EXCEPT ![i] = TRUE]
            /\ leave' = [leave EXCEPT ![i] = Append(@, [mode |-> mode, status |-> leaveStart(i)])]
       ELSE UNCHANGED <<closing, leave>>

Close(i, mode) == CloseBy(i, mode, <<>>)

closeVars == <<applied, sent, events, closing, leave>>

\* ------------------------------------------------------ Factory and mounting
Flushed == \A j \in Ids : phase[j] # "created"

\* useToast.create: a fresh identifier, then addToast.  The component is
\* mounted by the render flush that follows (Mount).
Create(space, limit) ==
    \E o \in space :
        LET i == 1 + Cardinality({j \in Ids : phase[j] # "absent"})
        IN  /\ i <= limit
            /\ toasts' = addToast(toasts, Box, Toast(i, Box, o))
            /\ phase' = [phase EXCEPT ![i] = "created"]
            /\ UNCHANGED <<hostVars, sent, settled, tracing, closed, addedAt, clock, probe, loaded, paused, closing, loading,
                           progress, interval, enter, leave, handler, applied,
                           collapsed, timers, clears, events, advances>>

\* onMounted: emit added (the container's onAdd runs inside the emit, before
\* this controller subscribes), start the enter transition, start the tick
\* when closable, subscribe to directives.
Mount(i) ==
    /\ phase[i] = "created"
    /\ \A j \in Ids : j < i => phase[j] # "created"
    /\ applied' = Deliver(applied, onAdd(getContainerToasts(Box), collapsed))
    /\ sent' = Note("onAdd", i, collapsed, onAdd(getContainerToasts(Box), collapsed))
    /\ enter' = [enter EXCEPT ![i] = enterStart(i)]
    /\ interval' = [interval EXCEPT ![i] = isClosable(Opt(i))]
    /\ phase' = [phase EXCEPT ![i] = "mounted"]
    /\ UNCHANGED <<hostVars, settled, tracing, closed, toasts, addedAt, clock, probe, loaded, paused, closing, loading,
                   progress, leave, handler, collapsed, timers, clears, events,
                   advances>>

\* The continuation of animator.enter(): "error" leaves loaded unset.
EnterSettle(i) ==
    /\ Flushed
    /\ enter[i] \in {"animating", "resolving"}
    /\ \E k \in Outcomes(enter[i]) :
        /\ enter' = [enter EXCEPT ![i] = k]
        /\ loaded' = [loaded EXCEPT ![i] = IF k = "error" THEN @ ELSE TRUE]
    /\ UNCHANGED <<hostVars, sent, settled, tracing, closed, toasts, addedAt, clock, probe, phase, paused, closing, loading,
                   progress, interval, leave, handler, applied, collapsed, timers,
                   clears, events, advances>>

\* ----------------------------------------------------------------- the tick
tickAdvancesClosing(i) == loaded[i] /\ ~loading[i] /\ ~paused[i]
tickAdvancesUnloaded(i) == ~closing[i] /\ ~loading[i] /\ ~paused[i]
tickAdvancesPaused(i) == loaded[i] /\ ~closing[i] /\ ~loading[i]
tickAdvances(i) == loaded[i] /\ ~closing[i] /\ ~loading[i] /\ ~paused[i]

nextProgressUnclamped(p, duration) == p + Step(duration)
\* Math.min(100, progress + 100 / (duration * 100))
nextProgress(p, duration) == Min(Full, p + Step(duration))

Tick(i) ==
    /\ Flushed
    /\ interval[i]
    /\ IF progress[i] >= Full
       THEN /\ interval' = [interval EXCEPT ![i] = FALSE]
            /\ Close(i, "timer")
            /\ UNCHANGED <<progress, advances>>
       ELSE IF tickAdvances(i)
       THEN /\ progress' = [progress EXCEPT ![i] = nextProgress(@, Opt(i).duration)]
            /\ advances' = [advances EXCEPT ![i] = IF tracing THEN @ + 1 ELSE @]
            /\ UNCHANGED <<interval, applied, sent, events, closing, leave>>
       ELSE UNCHANGED <<progress, advances, interval, applied, sent, events, closing,
                        leave>>
    /\ UNCHANGED <<hostVars, settled, tracing, closed, toasts, addedAt, clock, probe, phase, loaded, paused, loading,
                   enter, handler, collapsed, timers, clears>>

\* ------------------------------------------------------- user interaction
Pause(i) ==
    /\ Flushed
    /\ phase[i] = "mounted"
    /\ ~paused[i]
    /\ paused' = [paused EXCEPT ![i] = TRUE]
    /\ UNCHANGED <<hostVars, sent, settled, tracing, closed, toasts, addedAt, clock, probe, phase, loaded, closing, loading,
                   progress, interval, enter, leave, handler, applied, collapsed, timers,
                   clears, events, advances>>

Resume(i) ==
    /\ Flushed
    /\ phase[i] = "mounted"
    /\ paused[i]
    /\ paused' = [paused EXCEPT ![i] = FALSE]
    /\ UNCHANGED <<hostVars, sent, settled, tracing, closed, toasts, addedAt, clock, probe, phase, loaded, closing, loading,
                   progress, interval, enter, leave, handler, applied, collapsed,
                   timers, clears, events, advances>>

clickClosesUnlessSticky(o) == o.closable /\ o.mode # "sticky"
\* else if (options.value?.closable === true)
clickCloses(o) == o.closable

\* _onClick, on a click that is not ignored.
Click(i) ==
    /\ Flushed
    /\ phase[i] = "mounted"
    /\ ~(loading[i] \/ closing[i])
    /\ IF Opt(i).onClick
       THEN /\ loading' = [loading EXCEPT ![i] = TRUE]
            /\ handler' = [handler EXCEPT ![i] = "click"]
            /\ UNCHANGED closeVars
       ELSE /\ clickCloses(Opt(i))
            /\ CloseBy(i, "manual", <<"click">>)
            /\ UNCHANGED <<loading, handler>>
    /\ UNCHANGED <<hostVars, settled, tracing, closed, toasts, addedAt, clock, probe, phase, loaded, paused, progress,
                   interval, enter, collapsed, timers, clears, advances>>

\* action(key, data), on a call that is not ignored.
Action(i) ==
    /\ Flushed
    /\ phase[i] = "mounted"
    /\ ~(loading[i] \/ closing[i])
    /\ Opt(i).onAction
    /\ loading' = [loading EXCEPT ![i] = TRUE]
    /\ handler' = [handler EXCEPT ![i] = "action"]
    /\ UNCHANGED <<hostVars, sent, settled, tracing, closed, toasts, addedAt, clock, probe, phase, loaded, paused, closing,
                   progress, interval, enter, leave, applied, collapsed, timers,
                   clears, events, advances>>

\* The handler promise settles: resolved true, resolved false, or rejected.
\* The continuation runs whether or not the controller is still mounted.
closesOnSettled(res) == res # "rejected"
\* if (res) _close(...)
closesOn(res) == res = "true"

reasonManual(h) == "manual"
\* _close("manual") in _onClick, _close("action") in action
reasonOf(h) == IF h = "click" THEN "manual" ELSE "action"

loadingAfterUncaught(res) == res = "rejected"
\* loading.value = false, in then and in catch
loadingAfter(res) == FALSE

HandlerSettle(i) ==
    /\ Flushed
    /\ handler[i] # "none"
    /\ handler' = [handler EXCEPT ![i] = "none"]
    /\ \E res \in {"true", "false", "rejected"} :
        /\ settled' = [settled EXCEPT ![i] = res]
        /\ loading' = [loading EXCEPT ![i] = loadingAfter(res)]
        /\ IF closesOn(res)
           THEN Close(i, reasonOf(handler[i]))
           ELSE UNCHANGED closeVars
    /\ UNCHANGED <<hostVars, tracing, closed, toasts, addedAt, clock, probe, phase, loaded, paused, progress,
                   interval, enter, collapsed, timers, clears, advances>>

\* close(), on a call that is not ignored.
PublicClose(i) ==
    /\ Flushed
    /\ phase[i] = "mounted"
    /\ ~(loading[i] \/ closing[i])
    /\ Close(i, "manual")
    /\ UNCHANGED <<hostVars, settled, tracing, closed, toasts, addedAt, clock, probe, phase, loaded, paused, loading,
                   progress, interval, enter, handler, collapsed, timers, clears,
                   advances>>

LeaveSettleNotifying(i) ==
    /\ Flushed
    /\ leave[i] # <<>>
    /\ leave' = [leave EXCEPT ![i] = Tail(@)]
    /\ \E k \in Outcomes(Head(leave[i]).status) :
        IF settles(k)
        THEN /\ events' = [events EXCEPT ![i] = Log(@, <<k, "onClose", "deleted">>)]
             /\ closed' = [closed EXCEPT ![i] = Append(@, Head(leave[i]).mode)]
             /\ toasts' = removeToast(toasts, Box, i)
             /\ phase' = [phase EXCEPT ![i] = "unmounted"]
             /\ interval' = [interval EXCEPT ![i] = FALSE]
             /\ applied' = Deliver([applied EXCEPT ![i] = "none"],
                                   onRemove(getContainerToasts(Box), collapsed))
        ELSE UNCHANGED <<events, closed, toasts, phase, interval, applied>>
    /\ UNCHANGED <<hostVars, sent, settled, tracing, addedAt, clock, probe, loaded, paused, closing, loading,
                   progress, enter, handler, collapsed, timers, clears, advances>>

\* The continuation of animator.leave(): onClose(mode), then removeToast; the
\* render flush that follows unmounts the controller (onUnmounted clears the
\* tick and unsubscribes) and drops its stack slot.
LeaveSettle(i) ==
    /\ Flushed
    /\ leave[i] # <<>>
    /\ leave' = [leave EXCEPT ![i] = Tail(@)]
    /\ \E k \in Outcomes(Head(leave[i]).status) :
        IF settles(k)
        THEN /\ events' = [events EXCEPT ![i] = Log(@, <<k, "onClose", "deleted">>)]
             /\ closed' = [closed EXCEPT ![i] = Append(@, Head(leave[i]).mode)]
             /\ toasts' = removeToast(toasts, Box, i)
             /\ phase' = [phase EXCEPT ![i] = "unmounted"]
             /\ interval' = [interval EXCEPT ![i] = FALSE]
             /\ applied' = [applied EXCEPT ![i] = "none"]
        ELSE UNCHANGED <<events, closed, toasts, phase, interval, applied>>
    /\ UNCHANGED <<hostVars, sent, settled, tracing, addedAt, clock, probe, loaded, paused, closing, loading,
                   progress, enter, handler, collapsed, timers, clears, advances>>

\* --------------------------------------------------- container interaction
\* storage.boolean(name): the stored string read as a boolean.
boolean(v) == v = "true"

\* useContainer: the initial value of collapsed.
collapsedAtSetup(mobile, v) == mobile \/ boolean(v)

storedAlways(value, mobile) == IF value THEN "true" ELSE "false"
\* The isCollapsed setter's write to the storage: the flag as a string, or the
\* entry removed on a constrained viewport.
stored(value, mobile) ==
    IF ~mobile THEN (IF value THEN "true" ELSE "false") ELSE None

ToggleCollapse ==
    /\ Flushed
    /\ applied' = Deliver(applied, toggleCollapse(getContainerToasts(Box), collapsed))
    /\ sent' = Note("toggleCollapse", 0, ~collapsed,
                    toggleCollapse(getContainerToasts(Box), collapsed))
    /\ collapsed' = ~collapsed
    /\ storage' = stored(~collapsed, isMobile)
    /\ UNCHANGED <<hostRest, settled, tracing, closed, toasts, addedAt, clock, probe, phase, loaded, paused, closing,
                   loading, progress, interval, enter, leave, handler, timers,
                   clears, events, advances>>

Clear(limit) ==
    /\ Flushed
    /\ clears < limit
    /\ clears' = clears + 1
    /\ timers' = IF clear(getContainerToasts(Box)) = <<>> THEN timers
                 ELSE Append(timers, clear(getContainerToasts(Box)))
    /\ IF isMobile
       THEN /\ collapsed' = TRUE
            /\ storage' = stored(TRUE, isMobile)
       ELSE UNCHANGED <<collapsed, storage>>
    /\ UNCHANGED <<hostRest, sent, settled, tracing, closed, toasts, addedAt, clock, probe, phase, loaded, paused, closing,
                   loading, progress, interval, enter, leave, handler, applied,
                   events, advances>>

\* The timeout of one clear() call that fires next: the least delay, the
\* earlier setTimeout call among equal delays.
Due(queue) ==
    CHOOSE k \in 1..Len(queue) :
        \A j \in 1..Len(queue) :
            \/ queue[k].after < queue[j].after
            \/ queue[k].after = queue[j].after /\ k <= j

DropDue(qs, q) ==
    LET k == Due(qs[q])
        rest == [qs EXCEPT ![q] = SubSeq(@, 1, k - 1) \o SubSeq(@, k + 1, Len(@))]
    IN  SelectSeq(rest, LAMBDA x : x # <<>>)

\* A clear() timeout fires: emit remove to the identifier; a subscribed
\* controller runs _close("manual").
TimerFire(q) ==
    /\ Flushed
    /\ q \in 1..Len(timers)
    /\ timers' = DropDue(timers, q)
    /\ IF subscribed(timers[q][Due(timers[q])].to)
       THEN Close(timers[q][Due(timers[q])].to, "manual")
       ELSE UNCHANGED closeVars
    /\ UNCHANGED <<hostVars, settled, tracing, closed, toasts, addedAt, clock, probe, phase, loaded, paused, loading,
                   progress, interval, enter, handler, collapsed, clears, advances>>

\* ----------------------------------------------------------- specifications
Idle == [index |-> 0, count |-> 0, isCollapsed |-> FALSE, roles |-> {}, evaluated |-> FALSE]

\* No notification, no controller, no timeout.
Still ==
    /\ toasts = <<>>
    /\ addedAt = [c \in Containers |-> [id \in RegIds |-> 0]]
    /\ phase = [i \in Ids |-> "absent"]
    /\ loaded = [i \in Ids |-> FALSE]
    /\ paused = [i \in Ids |-> FALSE]
    /\ closing = [i \in Ids |-> FALSE]
    /\ loading = [i \in Ids |-> FALSE]
    /\ progress = [i \in Ids |-> 0]
    /\ interval = [i \in Ids |-> FALSE]
    /\ enter = [i \in Ids |-> "none"]
    /\ leave = [i \in Ids |-> <<>>]
    /\ handler = [i \in Ids |-> "none"]
    /\ applied = [i \in Ids |-> "none"]
    /\ timers = <<>>
    /\ clears = 0
    /\ closed = [i \in Ids |-> <<>>]
    /\ events = [i \in Ids |-> <<>>]
    /\ advances = [i \in Ids |-> 0]
    /\ settled = [i \in Ids |-> "none"]

Blank ==
    /\ Still
    /\ clock = 0
    /\ probe = Idle
    /\ collapsed \in BOOLEAN
    /\ sent \in {Silent, Unwatched}

DefaultDuration == 500   \* defaultOptions.duration: 5 seconds, in ticks

\* The plugin installed with no options on a wide viewport, no container
\* override, no body class; the stored preference is what collapsed came from.
Host ==
    /\ options = [c \in Containers |-> Unset]
    /\ defaultOptions = [duration |-> <<DefaultDuration>>, closable |-> <<TRUE>>]
    /\ installed = TRUE
    /\ isMobile = FALSE
    /\ storage = IF collapsed THEN "true" ELSE None
    /\ marker = [c \in Containers |-> None]
    /\ seen = [c \in Containers |-> 0]
    /\ body = {}
    /\ peer = Apart

Init ==
    /\ Blank
    /\ Host
    /\ tracing = TRUE
    /\ sent = Unwatched

Controller(i) ==
    \/ Mount(i)
    \/ EnterSettle(i)
    \/ Tick(i)
    \/ Pause(i)
    \/ Resume(i)
    \/ Click(i)
    \/ Action(i)
    \/ HandlerSettle(i)
    \/ PublicClose(i)
    \/ LeaveSettle(i)

Rest ==
    \/ \E i \in Ids : Controller(i)
    \/ ToggleCollapse
    \/ Clear(MaxClears)
    \/ \E q \in 1..MaxClears : TimerFire(q)

Next == Create(AllOptions, LifeToasts) \/ Rest

Spec == Init /\ [][Next]_vars

\* The lifecycle of one container's notifications under the scheduling the
\* event loop guarantees: a mounted flush, a running timer and a settled
\* promise are eventually served.  User input is never forced.
Fairness ==
    /\ \A i \in Ids : WF_vars(Mount(i))
    /\ \A i \in Ids : WF_vars(EnterSettle(i))
    /\ \A i \in Ids : WF_vars(Tick(i))
    /\ \A i \in Ids : WF_vars(LeaveSettle(i))
    /\ \A q \in 1..MaxClears : WF_vars(TimerFire(q))

FairSpec == Init /\ [][Next]_vars /\ Fairness

\* Several notifications with plain options (no tick, no handlers): the
\* container protocol.  The enter transition's outcome plays no part in it
\* (it only gates the tick) and is left pending.
StackOptions == {Plain(m) : m \in Modes}

StackStep(i) ==
    \/ Mount(i)
    \/ PublicClose(i)
    \/ LeaveSettle(i)

StackRest ==
    \/ \E i \in Ids : StackStep(i)
    \/ ToggleCollapse
    \/ Clear(StackClears)
    \/ \E q \in 1..StackClears : TimerFire(q)

StackNext == Create(StackOptions, StackToasts) \/ StackRest

FairStackNext == Create({Plain("default")}, StackToasts) \/ StackRest

StackInit ==
    /\ Blank
    /\ Host
    /\ tracing = FALSE
    /\ sent = Unwatched

StackSpec == StackInit /\ [][StackNext]_vars

StackFairness ==
    /\ \A i \in Ids : WF_vars(Mount(i))
    /\ \A i \in Ids : WF_vars(LeaveSettle(i))
    /\ \A q \in 1..StackClears : WF_vars(TimerFire(q))

FairStackSpec == StackInit /\ [][FairStackNext]_vars /\ StackFairness

\* The container protocol with its broadcasts recorded: plain notifications
\* of the default mode, created, mounted, closed and removed, and the collapse
\* control.
WatchStep(i) ==
    \/ Mount(i)
    \/ PublicClose(i)
    \/ LeaveSettle(i)

WatchNext ==
    \/ Create({Plain("default")}, WatchToasts)
    \/ \E i \in Ids : WatchStep(i)
    \/ ToggleCollapse

WatchInit ==
    /\ Blank
    /\ Host
    /\ tracing = FALSE
    /\ sent = Silent

WatchSpec == WatchInit /\ [][WatchNext]_vars

\* clear() among sticky notifications and default ones with an action
\* handler, under the scheduling of the event loop.  Without a duration no
\* tick runs, and the enter transition is left pending as in StackSpec.
ClearOptions == {Plain("sticky"), [Plain("default") EXCEPT !.onAction = TRUE]}

ClearStep(i) ==
    \/ Mount(i)
    \/ Action(i)
    \/ HandlerSettle(i)
    \/ LeaveSettle(i)

ClearNext ==
    \/ Create(ClearOptions, ClearToasts)
    \/ \E i \in Ids : ClearStep(i)
    \/ Clear(StackClears)
    \/ \E q \in 1..StackClears : TimerFire(q)

ClearSpec == StackInit /\ [][ClearNext]_vars /\ StackFairness

\* Two notifications with a tick and a click handler in a container whose
\* collapse control is used: stacking directives meet every lifecycle state.
SlotToasts == 2      \* notifications in SlotSpec

SlotOptions == {[mode |-> "default", duration |-> 2, closable |-> TRUE,
                 onClick |-> TRUE, onAction |-> FALSE]}

SlotStep(i) ==
    \/ Mount(i)
    \/ EnterSettle(i)
    \/ Tick(i)
    \/ Pause(i)
    \/ Click(i)
    \/ HandlerSettle(i)
    \/ LeaveSettle(i)

SlotNext ==
    \/ Create(SlotOptions, SlotToasts)
    \/ \E i \in Ids : SlotStep(i)
    \/ ToggleCollapse

SlotSpec == StackInit /\ [][SlotNext]_vars

\* The host side: installing the plugin, obtaining the Registry, container
\* overrides and the Factory's resolution of a notification's options.
ConfigOps == 3       \* calls in ConfigSpec

Overrides == [duration : {Absent, <<800>>}, closable : {Absent, <<FALSE>>}]

Arguments == {Object(v) : v \in Overrides} \cup {Omitted, NonObject}

Calls == [mode : {"default"}, duration : {Absent, <<0>>, <<300>>},
          closable : {Absent, <<FALSE>>}, onClick : {FALSE}, onAction : {FALSE}]

Rests == {EmptyOptions, [EmptyOptions EXCEPT !.duration = <<200>>]}

configVars == <<tracing, sent, settled, isMobile, storage, marker, seen, body, peer, addedAt,
                phase, loaded, paused, closing, loading, progress, interval, enter,
                leave, handler, applied, collapsed, timers, clears, closed, events,
                advances>>

\* app.use(ToastPlugin(rest)): provide the Registry, merge rest into the defaults.
Install(rest) ==
    /\ ~installed
    /\ clock < ConfigOps
    /\ clock' = clock + 1
    /\ installed' = TRUE
    /\ defaultOptions' = mergeConfig(defaultOptions, rest)
    /\ probe' = [op |-> "install"]
    /\ UNCHANGED <<configVars, toasts, options>>

Inject ==
    /\ clock < ConfigOps
    /\ clock' = clock + 1
    /\ probe' = [op |-> "injectCore", installed |-> installed,
                 result |-> injectCore(installed)]
    /\ UNCHANGED <<configVars, toasts, options, installed, defaultOptions>>

SetOptions(c, arg) ==
    /\ installed
    /\ clock < ConfigOps
    /\ clock' = clock + 1
    /\ options' = setOptions(options, c, arg)
    /\ probe' = [op |-> "setOptions", container |-> c, arg |-> arg,
                 before |-> getOptions(c)]
    /\ UNCHANGED <<configVars, toasts, installed, defaultOptions>>

\* create(component, props, call) in container c.
Make(c, id, call) ==
    /\ installed
    /\ clock < ConfigOps
    /\ IndexOf(toastsOf(toasts, c), id) = 0
    /\ clock' = clock + 1
    /\ toasts' = addToast(toasts, c, Toast(id, c, create(call, getOptions(c), defaultOptions)))
    /\ probe' = [op |-> "create", container |-> c, made |-> id, call |-> call]
    /\ UNCHANGED <<configVars, options, installed, defaultOptions>>

ConfigNext ==
    \/ \E rest \in Rests : Install(rest)
    \/ Inject
    \/ \E c \in Containers, arg \in Arguments : SetOptions(c, arg)
    \/ \E c \in Containers, id \in RegIds, call \in Calls : Make(c, id, call)

\* Before app.use: nothing provided, the defaults as getDefaultOptions has them
\* (one version of the defaults has no closable leaf).
ConfigInit ==
    /\ Blank
    /\ collapsed = FALSE
    /\ sent = Unwatched
    /\ tracing = TRUE
    /\ options = [c \in Containers |-> Unset]
    /\ defaultOptions \in {[duration |-> <<DefaultDuration>>, closable |-> <<TRUE>>],
                           [duration |-> <<DefaultDuration>>, closable |-> Absent]}
    /\ installed = FALSE
    /\ isMobile = FALSE
    /\ storage = None
    /\ marker = [c \in Containers |-> None]
    /\ seen = [c \in Containers |-> 0]
    /\ body = {}
    /\ peer = Apart

ConfigSpec == ConfigInit /\ [][ConfigNext]_vars

\* One container on a wide or a constrained viewport, with the stored
\* preference of earlier page loads; Reload is a new page load, which builds a
\* new coordinator for the same name over the same storage.
ViewToasts == 2      \* notifications per page load in ViewSpec
Reloads == 2         \* page loads after the first in ViewSpec

Found(v) == [op |-> "construct", found |-> v]

Reload ==
    /\ clock < Reloads
    /\ clock' = clock + 1
    /\ isMobile' \in BOOLEAN
    /\ collapsed' = collapsedAtSetup(isMobile', storage)
    /\ probe' = Found(storage)
    /\ toasts' = <<>>
    /\ addedAt' = [c \in Containers |-> [id \in RegIds |-> 0]]
    /\ phase' = [i \in Ids |-> "absent"]
    /\ loaded' = [i \in Ids |-> FALSE]
    /\ paused' = [i \in Ids |-> FALSE]
    /\ closing' = [i \in Ids |-> FALSE]
    /\ loading' = [i \in Ids |-> FALSE]
    /\ progress' = [i \in Ids |-> 0]
    /\ interval' = [i \in Ids |-> FALSE]
    /\ enter' = [i \in Ids |-> "none"]
    /\ leave' = [i \in Ids |-> <<>>]
    /\ handler' = [i \in Ids |-> "none"]
    /\ applied' = [i \in Ids |-> "none"]
    /\ timers' = <<>>
    /\ clears' = 0
    /\ closed' = [i \in Ids |-> <<>>]
    /\ events' = [i \in Ids |-> <<>>]
    /\ advances' = [i \in Ids |-> 0]
    /\ settled' = [i \in Ids |-> "none"]
    /\ UNCHANGED <<storage, sent, tracing, options, defaultOptions, installed, marker,
                   seen, body, peer>>

ViewStep(i) ==
    \/ Mount(i)
    \/ PublicClose(i)
    \/ LeaveSettle(i)

ViewNext ==
    \/ Create(StackOptions, ViewToasts)
    \/ \E i \in Ids : ViewStep(i)
    \/ ToggleCollapse
    \/ Clear(StackClears)
    \/ \E q \in 1..StackClears : TimerFire(q)
    \/ Reload

ViewInit ==
    /\ Still
    /\ clock = 0
    /\ sent = Unwatched
    /\ tracing = FALSE
    /\ options = [c \in Containers |-> Unset]
    /\ defaultOptions = [duration |-> <<DefaultDuration>>, closable |-> <<TRUE>>]
    /\ installed = TRUE
    /\ isMobile \in BOOLEAN
    /\ storage \in {None, "true"}
    /\ collapsed = collapsedAtSetup(isMobile, storage)
    /\ probe = Found(storage)
    /\ marker = [c \in Containers |-> None]
    /\ seen = [c \in Containers |-> 0]
    /\ body = {}
    /\ peer = Apart

ViewSpec == ViewInit /\ [][ViewNext]_vars

\* The lifecycle of default notifications together with Registry calls on
\* keys that are not there and clear() timeouts that fire late.
EdgeToasts == 2      \* notifications in EdgeSpec
EdgeOps == 2         \* Registry calls in EdgeSpec

\* core.removeToast(c, id) for an identifier the container does not hold.
RemoveAbsent(c, id) ==
    /\ clock < EdgeOps
    /\ IndexOf(toastsOf(toasts, c), id) = 0
    /\ clock' = clock + 1
    /\ toasts' = removeToast(toasts, c, id)
    /\ probe' = [op |-> "removeToast", container |-> c, identifier |-> id]
    /\ UNCHANGED <<configVars, options, installed, defaultOptions>>

\* core.getOptions(c)
ReadOptions(c) ==
    /\ clock < EdgeOps
    /\ clock' = clock + 1
    /\ probe' = [op |-> "getOptions", container |-> c, result |-> getOptions(c)]
    /\ UNCHANGED <<configVars, toasts, options, installed, defaultOptions>>

EdgeStep(i) ==
    \/ Mount(i)
    \/ Click(i)
    \/ LeaveSettle(i)

EdgeNext ==
    \/ Create({Plain("default")}, EdgeToasts)
    \/ \E i \in Ids : EdgeStep(i)
    \/ Clear(StackClears)
    \/ \E q \in 1..StackClears : TimerFire(q)
    \/ \E c \in Containers, id \in RegIds : RemoveAbsent(c, id)
    \/ \E c \in Containers : ReadOptions(c)
    \/ \E arg \in Arguments : SetOptions(Box, arg)

EdgeInit ==
    /\ Blank
    /\ Host
    /\ collapsed = FALSE
    /\ tracing = TRUE
    /\ sent = Unwatched

EdgeSpec == EdgeInit /\ [][EdgeNext]_vars

\* The initial state with one choice of the collapsed flag.
RoleInit ==
    /\ Init
    /\ collapsed = FALSE

\* The Registry alone, driven by arbitrary addToast/removeToast calls.
lifeVars == <<hostVars, sent, settled, tracing, closed, probe, phase, loaded, paused, closing, loading, progress, interval,
              enter, leave, handler, applied, collapsed, timers, clears, events,
              advances>>

RegAdd(c, id, m) ==
    /\ clock < MaxOps
    /\ clock' = clock + 1
    /\ toasts' = addToast(toasts, c, Toast(id, c, Plain(m)))
    /\ addedAt' = [addedAt EXCEPT ![c][id] = IF @ = 0 THEN clock + 1 ELSE @]
    /\ UNCHANGED lifeVars

RegRemove(c, id) ==
    /\ clock < MaxOps
    /\ clock' = clock + 1
    /\ toasts' = removeToast(toasts, c, id)
    /\ addedAt' = [addedAt EXCEPT ![c][id] = 0]
    /\ UNCHANGED lifeVars

RegistryNext ==
    \E c \in Containers, id \in RegIds :
        \/ \E m \in Modes : RegAdd(c, id, m)
        \/ RegRemove(c, id)

RegistrySpec == RoleInit /\ [][RegistryNext]_vars

\* Two containers, each with its configured body class or none, over the
\* Registry; Watch is the run of a container's count watcher.
Markers == {None, "has-toast"}

\* classList.add / classList.remove, skipped without a configured class.
bodyClass(classes, name, v) ==
    IF name = None THEN classes
    ELSE IF v > 0 THEN classes \cup {name}
    ELSE classes \ {name}

\* watch(count, ...): the callback, run once count differs from the value it
\* was last run for.
Watch(c) ==
    /\ count(c) # seen[c]
    /\ seen' = [seen EXCEPT ![c] = count(c)]
    /\ body' = bodyClass(body, marker[c], count(c))
    /\ UNCHANGED <<toasts, addedAt, clock, probe, phase, loaded, paused, closing, loading,
                   progress, interval, enter, leave, handler, applied, collapsed,
                   timers, clears, closed, events, advances, sent, settled, options,
                   defaultOptions, installed, isMobile, storage, marker, peer, tracing>>

MarkerNext ==
    \/ RegistryNext
    \/ \E c \in Containers : Watch(c)

MarkerInit ==
    /\ Blank
    /\ collapsed = FALSE
    /\ tracing = TRUE
    /\ sent = Unwatched
    /\ options = [c \in Containers |-> Unset]
    /\ defaultOptions = [duration |-> <<DefaultDuration>>, closable |-> <<TRUE>>]
    /\ installed = TRUE
    /\ isMobile = FALSE
    /\ storage = None
    /\ marker \in [Containers -> Markers]
    /\ seen = [c \in Containers |-> 0]
    /\ body = {}
    /\ peer = Apart

MarkerSpec == MarkerInit /\ [][MarkerNext]_vars

\* The role computation alone, on every (index, count, collapsed).
Probes == {pr \in [index : 0..(MaxCount - 1), count : 1..MaxCount, isCollapsed : BOOLEAN] :
              pr.index < pr.count}

Pick ==
    /\ \E pr \in Probes :
        probe' = [index |-> pr.index, count |-> pr.count, isCollapsed |-> pr.isCollapsed,
                  roles |-> {}, evaluated |-> FALSE]
    /\ UNCHANGED <<hostVars, sent, settled, tracing, closed, toasts, addedAt, clock, phase, loaded, paused, closing, loading,
                   progress, interval, enter, leave, handler, applied, collapsed,
                   timers, clears, events, advances>>

Evaluate ==
    /\ probe # Idle
    /\ ~probe.evaluated
    /\ probe' = [probe EXCEPT !.roles = Roles(probe.index, probe.count, probe.isCollapsed),
                              !.evaluated = TRUE]
    /\ UNCHANGED <<hostVars, sent, settled, tracing, closed, toasts, addedAt, clock, phase, loaded, paused, closing, loading,
                   progress, interval, enter, leave, handler, applied, collapsed,
                   timers, clears, events, advances>>

RoleNext == Pick \/ Evaluate

RoleSpec == RoleInit /\ [][RoleNext]_vars

\* ------------------------------------------------------------------ claims
ReadyToast(i) == phase[i] # "absent"

\* C1: in every container the Registry view holds exactly the identifiers
\* added and not removed since, once each, in the order they were inserted;
\* a container never used has the empty view.
C1_LiveInInsertionOrder ==
    \A c \in Containers :
        LET s == getContainerToasts(c)
        IN  /\ {s[k].identifier : k \in 1..Len(s)} = {id \in RegIds : addedAt[c][id] > 0}
            /\ \A j, k \in 1..Len(s) :
                   j < k => addedAt[c][s[j].identifier] < addedAt[c][s[k].identifier]
            /\ (\A id \in RegIds : addedAt[c][id] = 0) => s = <<>>

\* Identifier 1 was added, removed and added again after identifier 2, and
\* the other container was never used.
C1_Witness ==
    /\ "aux" \notin DOMAIN toasts
    /\ Len(getContainerToasts("main")) = 2
    /\ getContainerToasts("main")[1].identifier = 2
    /\ getContainerToasts("main")[2].identifier = 1
    /\ addedAt["main"][2] = 2
    /\ addedAt["main"][1] = 4

\* C2: whatever close requests reach a notification, onClose is invoked once
\* and the Registry deletion is requested once: one continuation is pending
\* while the leave transition runs, and none is started by a later request.
C2_OnCloseOnce ==
    \A i \in Ids :
        /\ Len(closed[i]) <= 1
        /\ Count(events[i], "onClose") = Len(closed[i])
        /\ Count(events[i], "deleted") = Len(closed[i])
        /\ closing[i] => Len(closed[i]) + Len(leave[i]) = 1
        /\ ~closing[i] => closed[i] = <<>> /\ leave[i] = <<>>

\* A second close request arrived while closing, and the sequence completed.
C2_Witness ==
    \E i \in Ids : Count(events[i], "removing") >= 2 /\ Len(closed[i]) = 1

\* C3: exactly one removing event is emitted per notification; a close
\* request on a closing notification emits nothing.
C3_OneRemoving ==
    \A i \in Ids :
        Count(events[i], "removing") = IF closing[i] THEN 1 ELSE 0

Results == {"done", "error", "ignored"}

\* C4: in a close sequence removing is emitted before closing is set and the
\* leave transition starts, onClose follows the settlement of the leave
\* transition, and the Registry deletion follows onClose.
C4_CloseOrder ==
    \A i \in Ids :
        LET t == events[i]
        IN  /\ closing[i] <=> Count(t, "closing") > 0
            /\ closing[i] => /\ 0 < First(t, "removing")
                             /\ First(t, "removing") < First(t, "closing")
                             /\ First(t, "closing") < First(t, "leave")
            /\ closed[i] # <<>> =>
                   \E k \in 1..Len(t) : /\ t[k] \in Results
                                        /\ First(t, "leave") < k
                                        /\ k < First(t, "onClose")
            /\ (ReadyToast(i) /\ ~InRegistry(i)) =>
                   /\ closed[i] # <<>>
                   /\ 0 < First(t, "onClose")
                   /\ First(t, "onClose") < First(t, "deleted")

\* A close sequence ran to the end after a failed leave transition.
C4_Witness ==
    \E i \in Ids : /\ ~InRegistry(i)
                   /\ Count(events[i], "error") = 1
                   /\ Count(events[i], "deleted") = 1

\* C5: once closing is set the notification is eventually deleted from the
\* Registry, onClose invoked, whatever the leave transition resolves to.
C5_CloseCompletes ==
    \A i \in Ids : closing[i] ~> (~InRegistry(i) /\ Len(closed[i]) = 1)

\* A hidden notification is closing: its leave transition resolved "ignored".
C5_Witness ==
    \E i \in Ids : /\ closing[i]
                   /\ leave[i] # <<>>
                   /\ Head(leave[i]).status = "resolving"

Dur(i) == Opt(i).duration

Ticking(i) == InRegistry(i) /\ phase[i] = "mounted" /\ isClosable(Opt(i))

C6State(i) ==
    Ticking(i) =>
        /\ progress[i] = Min(Full, advances[i] * Step(Dur(i)))
        /\ progress[i] = Full => advances[i] \in {Dur(i), Dur(i) + 1}
        /\ advances[i] < Dur(i) => progress[i] < Full
        /\ (progress[i] = Full /\ Count(events[i], "timer") = 0) => interval[i]
        /\ Count(events[i], "timer") <= 1
        /\ Count(events[i], "timer") = 1 => progress[i] = Full /\ ~interval[i]

C6Step(i) ==
    (Ticking(i) /\ Tick(i)) =>
        IF progress[i] >= Full
        THEN ~interval'[i] /\ Count(events'[i], "timer") = 1
        ELSE tickAdvances(i) =>
                 /\ progress'[i] > progress[i]
                 /\ progress'[i] = Min(Full, progress[i] + Step(Dur(i)))

C7_PauseFreezes ==
    [][\A i \in Ids :
          /\ (paused[i] /\ paused'[i]) => progress'[i] = progress[i]
          /\ paused'[i] # paused[i] =>
                 /\ progress'[i] = progress[i]
                 /\ loaded'[i] = loaded[i]
                 /\ closing'[i] = closing[i]
                 /\ loading'[i] = loading[i]
                 /\ interval'[i] = interval[i]
          /\ progress'[i] # progress[i] =>
                 /\ Ticking(i)
                 /\ progress'[i] = Min(Full, progress[i] + Step(Dur(i)))
                 /\ progress'[i] > progress[i]]_vars

\* A loaded notification paused midway with its tick running.
C7_Witness ==
    \E i \in Ids : /\ paused[i]
                   /\ loaded[i]
                   /\ interval[i]
                   /\ ~closing[i]
                   /\ ~loading[i]
                   /\ 0 < progress[i]
                   /\ progress[i] < Full

UserActed(i) ==
    \/ paused[i]
    \/ loading[i]
    \/ (events[i] # <<>> /\ events[i][1] # "timer")

\* C8: a notification with a running tick whose enter transition resolved
\* "error" is, unless paused, loading or closed by hand, eventually closed
\* with reason timer and removed.
C8_ErrorStillCloses ==
    \A i \in Ids :
        (enter[i] = "error" /\ interval[i])
            ~> (UserActed(i) \/ (closed[i] = <<"timer">> /\ ~InRegistry(i)))

Expected(index, total, isCollapsed) ==
    IF ~isCollapsed THEN "active"
    ELSE IF total - 1 - index = 0 THEN "active"
    ELSE IF total - 1 - index = 1 THEN "secondary"
    ELSE IF total - 1 - index = 2 THEN "tertiary"
    ELSE "hidden"

\* C9: for every count and index below it exactly one role holds, the one
\* its distance from the end gives when collapsed, active when not.
C9_ExactlyOneRole ==
    probe.evaluated =>
        probe.roles = {Expected(probe.index, probe.count, probe.isCollapsed)}

\* Index 0 of 5 in a collapsed container was found hidden.
C9_Witness ==
    /\ probe.evaluated
    /\ probe.index = 0
    /\ probe.count = 5
    /\ probe.isCollapsed
    /\ probe.roles = {"hidden"}

Quiet == Flushed /\ \A i \in Ids : InRegistry(i) => ~closing[i]

\* C10: in a collapsed container with no notification closing, the last
\* notification is not left in secondary, tertiary or hide and no other
\* notification is left in activate.
C10_DirectivesAgree ==
    (collapsed /\ Quiet) =>
        LET ts == getContainerToasts(Box)
        IN  \A k \in 1..Len(ts) :
                IF k = Len(ts)
                THEN applied[ts[k].identifier] \notin {"secondary", "tertiary", "hide"}
                ELSE applied[ts[k].identifier] # "activate"

\* ------------------------------------------------ claims on the broadcasts
Directive(role) ==
    CASE role = "active" -> "activate"
      [] role = "secondary" -> "secondary"
      [] role = "tertiary" -> "tertiary"
      [] OTHER -> "hide"

\* The directive for the notification at index k of list, if there is one.
To(list, k, state) ==
    IF 0 <= k /\ k < Len(list) THEN <<[to |-> At(list, k), state |-> state]>> ELSE <<>>

Slot(list, id) == (CHOOSE k \in 1..Len(list) : list[k] = id) - 1

Without(list, id) == SelectSeq(list, LAMBDA x : x # id)

Targets(emits) == {emits[k].to : k \in 1..Len(emits)}

HideUp(list) ==
    [k \in 1..Max(0, Len(list) - 3) |-> [to |-> list[k], state |-> "hide"]]

HideDown(list) ==
    [k \in 1..Max(0, Len(list) - 3) |-> [to |-> list[Len(list) - 2 - k], state |-> "hide"]]

Collapsing == sent.by = "toggleCollapse" /\ ~sent.was

\* C11 as stated: collapsing broadcasts secondary to index count-2, tertiary
\* to index count-3, then hide to the indices below count-3 from the highest
\* down to 0, and nothing to index count-1.
C11_HideDescending ==
    Collapsing =>
        /\ sent.emits = To(sent.list, Len(sent.list) - 2, "secondary")
                          \o To(sent.list, Len(sent.list) - 3, "tertiary")
                          \o HideDown(sent.list)
        /\ sent.list # <<>> => sent.list[Len(sent.list)] \notin Targets(sent.emits)

\* C11 (amended): collapsing broadcasts secondary to index count-2, tertiary
\* to index count-3, then hide to the indices below count-3 from 0 upwards,
\* and nothing to index count-1.
C11_HideAscending ==
    Collapsing =>
        /\ sent.emits = To(sent.list, Len(sent.list) - 2, "secondary")
                          \o To(sent.list, Len(sent.list) - 3, "tertiary")
                          \o HideUp(sent.list)
        /\ sent.list # <<>> => sent.list[Len(sent.list)] \notin Targets(sent.emits)

\* A container of five notifications was collapsed: four directives.
C11_Witness ==
    /\ Collapsing
    /\ Len(sent.list) = 5
    /\ Len(sent.emits) = 4

\* C12: expanding emits activate once to every notification of the container
\* and nothing else, every subscribed notification that is not closing applies
\* it, and the flag is false afterwards; every toggle flips the flag.
C12_ExpandActivatesAll ==
    /\ sent.by # "none" => collapsed = sent.now
    /\ sent.by = "toggleCollapse" =>
           /\ sent.now = ~sent.was
           /\ sent.was =>
                  /\ Len(sent.emits) = Len(sent.list)
                  /\ \A k \in 1..Len(sent.emits) : sent.emits[k].state = "activate"
                  /\ \A k \in 1..Len(sent.list) :
                         Cardinality({j \in 1..Len(sent.emits) :
                                         sent.emits[j].to = sent.list[k]}) = 1
                  /\ \A k \in 1..Len(sent.list) :
                         (InRegistry(sent.list[k]) /\ ~closing[sent.list[k]])
                             => applied[sent.list[k]] = "activate"

\* A collapsed container of three notifications, one of them closing, was
\* expanded.
C12_Witness ==
    /\ sent.by = "toggleCollapse"
    /\ sent.was
    /\ ~collapsed
    /\ Len(sent.list) = 3
    /\ \E k \in 1..3 : InRegistry(sent.list[k]) /\ closing[sent.list[k]]
    /\ \E k \in 1..3 : applied[sent.list[k]] = "activate"

\* C13: an added event of the notification at index count-1 makes a collapsed
\* container send secondary to index count-2, tertiary to index count-3 and
\* hide to index count-4, where they exist, and nothing to the new top: each
\* target gets the directive of the role it holds after the insertion.  A
\* container that is not collapsed sends nothing.
C13_AddShiftsBack ==
    sent.by = "onAdd" =>
        IF ~sent.was THEN sent.emits = <<>>
        ELSE (sent.list # <<>> /\ sent.list[Len(sent.list)] = sent.who) =>
                 /\ sent.emits = To(sent.list, Len(sent.list) - 2, "secondary")
                                   \o To(sent.list, Len(sent.list) - 3, "tertiary")
                                   \o To(sent.list, Len(sent.list) - 4, "hide")
                 /\ \A k \in 1..Len(sent.emits) :
                        /\ sent.emits[k].to # sent.who
                        /\ sent.emits[k].state =
                               Directive(Expected(Slot(sent.list, sent.emits[k].to),
                                                  Len(sent.list), TRUE))

\* A fifth notification was mounted in a collapsed container.
C13_Witness ==
    /\ sent.by = "onAdd"
    /\ sent.was
    /\ Len(sent.list) = 5
    /\ sent.list[5] = sent.who
    /\ Len(sent.emits) = 3

\* C14: a removing event makes a collapsed container notify exactly the
\* remaining notifications whose role changes when the removed one is gone,
\* each with the directive of its role in the list without the removed one.
\* A container that is not collapsed sends nothing.
C14_RemoveShiftsForward ==
    sent.by = "onRemove" =>
        IF ~sent.was THEN sent.emits = <<>>
        ELSE LET rest == Without(sent.list, sent.who)
                 after(id) == Expected(Slot(rest, id), Len(rest), TRUE)
                 before(id) == Expected(Slot(sent.list, id), Len(sent.list), TRUE)
             IN  /\ \A k \in 1..Len(sent.emits) :
                        /\ sent.emits[k].to # sent.who
                        /\ sent.emits[k].state = Directive(after(sent.emits[k].to))
                 /\ Targets(sent.emits) =
                        {rest[k] : k \in {j \in 1..Len(rest) : after(rest[j]) # before(rest[j])}}

\* ------------------------------------------------------- claims on clear()
Scheduled(i) ==
    \E q \in 1..Len(timers) : \E k \in 1..Len(timers[q]) : timers[q][k].to = i

Sticky(i) == InRegistry(i) /\ Opt(i).mode = "sticky"

\* A clear() call: one timeout per non-sticky notification of the container,
\* in insertion order, the k-th 75 ms * k after the call; none for a sticky one.
C15Schedule ==
    clears' # clears =>
        LET ts == getContainerToasts(Box)
            new == IF Len(timers') > Len(timers) THEN timers'[Len(timers')] ELSE <<>>
        IN  /\ timers' = IF new = <<>> THEN timers ELSE Append(timers, new)
            /\ {new[k].to : k \in 1..Len(new)} = {i \in Ids : InRegistry(i) /\ ~Sticky(i)}
            /\ \A k \in 1..Len(new) : new[k].after = 75 * (k - 1)
            /\ \A j, k \in 1..Len(new) :
                   j < k => Slot(identifiers(ts), new[j].to) < Slot(identifiers(ts), new[k].to)

\* A timeout fires: the earliest one of its clear() call; the directive starts
\* the close sequence of its target with reason manual unless the target is
\* closing or gone, a pending handler notwithstanding, and touches no other.
C15Fire ==
    (timers' # timers /\ clears' = clears) =>
        \E q \in 1..Len(timers) : \E k \in 1..Len(timers[q]) :
            LET it == timers[q][k]
                cut == [timers EXCEPT ![q] = SubSeq(@, 1, k - 1) \o SubSeq(@, k + 1, Len(@))]
            IN  /\ timers' = SelectSeq(cut, LAMBDA x : x # <<>>)
                /\ \A j \in 1..Len(timers[q]) : it.after <= timers[q][j].after
                /\ (InRegistry(it.to) /\ ~closing[it.to]) =>
                       /\ closing'[it.to]
                       /\ leave'[it.to] # <<>>
                       /\ Head(leave'[it.to]).mode = "manual"
                /\ \A i \in Ids : i # it.to => closing'[i] = closing[i]

C15Sticky == \A i \in Ids : Sticky(i) => Sticky(i)'

\* C15 as stated: clear() schedules the staggered removals of the non-sticky
\* notifications, each of which is eventually closed with reason manual and
\* deleted, and the sticky ones stay.
C15_ClearedManual ==
    /\ [][C15Schedule /\ C15Fire /\ C15Sticky]_vars
    /\ \A i \in Ids : Scheduled(i) ~> (~InRegistry(i) /\ closed[i] = <<"manual">>)

\* C15 (amended): as stated, but a scheduled notification that is already
\* closing when its directive arrives keeps the reason of the close under way:
\* it is eventually deleted, onClose invoked once.
C15_ClearedClosed ==
    /\ [][C15Schedule /\ C15Fire /\ C15Sticky]_vars
    /\ \A i \in Ids : Scheduled(i) ~> (~InRegistry(i) /\ Len(closed[i]) = 1)

\* The first timeout of a clear() closed a notification whose action handler
\* is pending; the second (75 ms) is still to fire and a sticky one stays.
C15_Witness ==
    /\ Len(timers) = 1
    /\ Len(timers[1]) = 1
    /\ timers[1][1].after = 75
    /\ \E i \in Ids : /\ loading[i]
                       /\ closing[i]
                       /\ leave[i] # <<>>
                       /\ Head(leave[i]).mode = "manual"
    /\ \E i \in Ids : Sticky(i)

\* --------------------------------------------- claims on click and action
Pending(i) == handler[i] # "none"

Open(i) == phase[i] = "mounted" /\ ~loading[i] /\ ~closing[i]

\* This step ran _close(mode) for notification i: removing was emitted, and
\* the close sequence started with that reason unless one was under way.
Requested(i, mode) ==
    /\ Count(events'[i], "removing") = Count(events[i], "removing") + 1
    /\ Len(events'[i]) > Len(events[i])
    /\ events'[i][Len(events[i]) + 1] = mode
    /\ closing'[i]
    /\ IF closing[i] THEN leave'[i] = leave[i]
       ELSE Len(leave'[i]) = 1 /\ Head(leave'[i]).mode = mode

\* This step neither closed nor removed notification i.
Untouched(i) ==
    /\ closing'[i] = closing[i]
    /\ events'[i] = events[i]
    /\ leave'[i] = leave[i]
    /\ closed'[i] = closed[i]
    /\ toasts' = toasts
    /\ phase'[i] = phase[i]
    /\ progress'[i] = progress[i]

\* C16: while a handler promise of a notification is pending, loading is set,
\* no click, action or close() is accepted, and no close sequence has started:
\* closing is false and no removing event was emitted.
C16_LoadingGuards ==
    \A i \in Ids :
        Pending(i) =>
            /\ loading[i]
            /\ ~ENABLED Click(i)
            /\ ~ENABLED Action(i)
            /\ ~ENABLED PublicClose(i)
            /\ ~closing[i]
            /\ Count(events[i], "removing") = 0

\* C17: a click is accepted only when neither loading nor closing; with an
\* onClick handler it sets loading and leaves one handler promise pending,
\* changing nothing else; when that promise settles loading is cleared, and
\* _close("manual") runs if it resolved true and nothing is closed otherwise.
C17_ClickHandler ==
    /\ [](\A i \in Ids :
             (phase[i] = "mounted" /\ (loading[i] \/ closing[i])) => ~ENABLED Click(i))
    /\ [][\A i \in Ids :
             /\ (Click(i) /\ Opt(i).onClick) =>
                    /\ ~Pending(i)
                    /\ loading'[i]
                    /\ handler'[i] = "click"
                    /\ Untouched(i)
             /\ (handler'[i] = "click" /\ handler[i] # "click") => Open(i) /\ Opt(i).onClick
             /\ (handler[i] = "click" /\ handler'[i] = "none") =>
                    /\ ~loading'[i]
                    /\ IF settled'[i] = "true" THEN Requested(i, "manual")
                       ELSE Untouched(i)]_vars

\* The click handler of an open notification resolved true and the close
\* sequence with reason manual is under way.
C17_Witness ==
    \E i \in Ids : /\ InRegistry(i)
                   /\ Opt(i).onClick
                   /\ ~Opt(i).onAction
                   /\ settled[i] = "true"
                   /\ ~loading[i]
                   /\ events[i] = <<"manual", "removing", "closing", "leave">>

\* C18: a click on a notification without onClick handler that is neither
\* loading nor closing is accepted exactly when closable is true, whatever
\* the mode, and then starts the close sequence with reason manual at once.
C18_PlainClick ==
    /\ [](\A i \in Ids :
             (Open(i) /\ Flushed /\ ~Opt(i).onClick) => (ENABLED Click(i) <=> Opt(i).closable))
    /\ [][\A i \in Ids :
             (Click(i) /\ ~Opt(i).onClick) =>
                 /\ Opt(i).closable
                 /\ closing'[i]
                 /\ Len(leave'[i]) = 1
                 /\ Head(leave'[i]).mode = "manual"
                 /\ events'[i] = events[i] \o <<"click", "manual", "removing", "closing", "leave">>
                 /\ ~loading'[i]
                 /\ ~Pending(i)']_vars

\* A sticky notification was closed by a click.
C18_Witness ==
    \E i \in Ids : /\ Sticky(i)
                   /\ closing[i]
                   /\ events[i] = <<"click", "manual", "removing", "closing", "leave">>

\* C19: the step in which a handler promise rejects clears loading and closes
\* or removes nothing; afterwards the notification, unless a close sequence
\* is under way, accepts a click and an action again.
C19_RejectionAbsorbed ==
    /\ [](\A i \in Ids :
             (settled[i] = "rejected" /\ ~Pending(i) /\ phase[i] = "mounted" /\ ~closing[i]) =>
                 /\ ~loading[i]
                 /\ (Opt(i).onClick /\ Flushed) => ENABLED Click(i)
                 /\ (Opt(i).onAction /\ Flushed) => ENABLED Action(i))
    /\ [][\A i \in Ids :
             (Pending(i) /\ ~Pending(i)' /\ settled'[i] = "rejected") =>
                 /\ ~loading'[i]
                 /\ Untouched(i)]_vars

\* After a rejected handler promise a later action was accepted.
C19_Witness ==
    \E i \in Ids : /\ settled[i] = "rejected"
                   /\ handler[i] = "action"
                   /\ loading[i]
                   /\ events[i] = <<>>

\* C20: action is accepted only when neither loading nor closing and with an
\* onAction handler; it sets loading and leaves one handler promise pending,
\* changing nothing else; when that promise settles loading is cleared, and
\* _close("action") runs if it resolved true and nothing is closed otherwise.
C20_ActionHandler ==
    /\ [](\A i \in Ids :
             (phase[i] = "mounted" /\ (loading[i] \/ closing[i] \/ ~Opt(i).onAction))
                 => ~ENABLED Action(i))
    /\ [][\A i \in Ids :
             /\ Action(i) =>
                    /\ ~Pending(i)
                    /\ loading'[i]
                    /\ handler'[i] = "action"
                    /\ Untouched(i)
             /\ (handler'[i] = "action" /\ handler[i] # "action") => Open(i) /\ Opt(i).onAction
             /\ (handler[i] = "action" /\ handler'[i] = "none") =>
                    /\ ~loading'[i]
                    /\ IF settled'[i] = "true" THEN Requested(i, "action")
                       ELSE Untouched(i)]_vars

\* The action handler of an open notification resolved true and the close
\* sequence with reason action is under way.
C20_Witness ==
    \E i \in Ids : /\ InRegistry(i)
                   /\ settled[i] = "true"
                   /\ ~loading[i]
                   /\ events[i] = <<"action", "removing", "closing", "leave">>

\* ------------------------------------------------- claims on auto-dismiss
Exempt(i) == InRegistry(i) /\ (Opt(i).mode = "sticky" \/ Opt(i).duration <= 0)

TimerCloses(i) == Count(events[i], "timer") + Count(closed[i], "timer")

\* C21: a sticky notification, and one whose duration is not positive, has no
\* tick, keeps progress 0 and gets no close request with reason timer, from
\* its creation on and after it has left the Registry: every close of it has
\* reason manual or action.
C21_StickyExempt ==
    /\ [](\A i \in Ids :
             Exempt(i) => ~interval[i] /\ progress[i] = 0 /\ TimerCloses(i) = 0)
    /\ [][\A i \in Ids :
             (Exempt(i) \/ (~InRegistry(i) /\ TimerCloses(i) = 0 /\ progress[i] = 0)) =>
                 /\ ~interval'[i]
                 /\ progress'[i] = 0
                 /\ TimerCloses(i)' = 0]_vars

\* A loaded sticky notification with a positive duration was closed by a click.
C21_Witness ==
    \E i \in Ids : /\ Sticky(i)
                   /\ Opt(i).duration = 3
                   /\ loaded[i]
                   /\ progress[i] = 0
                   /\ closing[i]
                   /\ events[i][1] = "click"

\* The last call was op.
Called(op) == "op" \in DOMAIN probe /\ probe.op = op

\* The record the last create call stored.
Created == LET ts == getContainerToasts(probe.container) IN ts[IndexOf(ts, probe.made)]

\* The first leaf that is present, in the order call-site, container, global.
Preferred(call, override, global, literal) ==
    IF call # Absent THEN call[1]
    ELSE IF override # Absent THEN override[1]
    ELSE IF global # Absent THEN global[1]
    ELSE literal

\* C22: a created notification's duration and closable are, leaf by leaf, the
\* call-site value when given (0 and false included), else the container
\* override in the Registry, else the global default.
C22_LeafByLeaf ==
    Called("create") =>
        /\ Created.duration = Preferred(probe.call.duration, getOptions(probe.container).duration,
                                        defaultOptions.duration, 500)
        /\ Created.closable = Preferred(probe.call.closable, getOptions(probe.container).closable,
                                        defaultOptions.closable, TRUE)

C22_Witness ==
    /\ Called("create")
    /\ probe.call.duration = <<0>>
    /\ probe.call.closable = Absent
    /\ getOptions(probe.container) = [duration |-> <<800>>, closable |-> <<FALSE>>]
    /\ defaultOptions.closable = <<TRUE>>
    /\ Created.duration = 0
    /\ Created.closable = FALSE

\* C23: setOptions(container, o) replaces the container's override wholesale;
\* with no argument or a non-object it clears it: getOptions is then the empty
\* object and a creation in that container resolves from the global defaults.
C23_ReplaceOrClear ==
    /\ Called("setOptions") =>
           getOptions(probe.container) =
               IF probe.arg.kind = "object" THEN probe.arg.value ELSE EmptyOptions
    /\ (Called("create") /\ getOptions(probe.container) = EmptyOptions) =>
           /\ Created.duration = Preferred(probe.call.duration, Absent, defaultOptions.duration, 500)
           /\ Created.closable = Preferred(probe.call.closable, Absent, defaultOptions.closable, TRUE)

C23_Witness ==
    /\ Called("setOptions")
    /\ probe.before.duration = <<800>>
    /\ probe.arg = Omitted
    /\ getOptions(probe.container) = EmptyOptions

\* C28: injectCore throws when the plugin is not installed and returns the
\* shared Registry otherwise; a failing call creates or changes no Registry
\* state.
C28_InjectCore ==
    [][(clock' # clock /\ probe'.op = "injectCore") =>
          /\ probe'.result.threw = ~installed
          /\ installed => probe'.result.core = "core"
          /\ ~installed => probe'.result.core = None
          /\ toasts' = toasts
          /\ options' = options
          /\ installed' = installed]_vars

C28_Witness ==
    /\ Called("injectCore")
    /\ ~installed
    /\ probe.result.threw
    /\ toasts = <<>>
    /\ options = [c \in Containers |-> Unset]

\* ------------------------------------------- claims on the derived values
\* The notifications created and not yet removed, by the lifecycle.
Present == {i \in Ids : phase[i] \in {"created", "mounted"}}

Latest(S) == CHOOSE i \in S : \A j \in S : j <= i

\* C24: the container's count is the number of notifications stored for it,
\* stickyCount the number of those with mode sticky and activeId the key of
\* the last inserted one still present, undefined for an empty container.
C24_DerivedValues ==
    /\ \A i \in Ids : InRegistry(i) <=> i \in Present
    /\ count(Box) = Cardinality(Present)
    /\ stickyCount(Box) = Cardinality({i \in Present : Opt(i).mode = "sticky"})
    /\ activeId(Box) = IF Present = {} THEN Absent ELSE key(Box, Latest(Present))
    /\ \A c \in Containers \ {Box} :
           count(c) = 0 /\ stickyCount(c) = 0 /\ activeId(c) = Absent

\* Sticky 1, default 2 and a third one that has been closed and removed.
C24_Witness ==
    /\ Sticky(1)
    /\ phase[2] = "mounted" /\ ~Sticky(2)
    /\ phase[3] = "unmounted" /\ closed[3] = <<"manual">>
    /\ phase[4] = "absent"
    /\ count(Box) = 2
    /\ stickyCount(Box) = 1
    /\ activeId(Box) = key(Box, 2)

\* ------------------------------------------ claims on the collapsed flag
\* C25: on a constrained viewport the collapsed flag is true in every
\* reachable state, whatever toggleCollapse and clear calls are made.
C25_ForcedCollapsed == isMobile => collapsed

\* A write of the flag by the running coordinator: a toggle, or a clear on a
\* constrained viewport.
Written == clock' = clock /\ (collapsed' # collapsed \/ (isMobile /\ clears' # clears))

\* C26: on a wide viewport every write of the flag stores it as a string, so
\* the stored value is the flag and a coordinator built afterwards starts with
\* it (false when nothing is stored); on a constrained viewport a write
\* removes the stored value and a new coordinator starts collapsed.
C26_Persistence ==
    /\ [][Written => storage' = IF isMobile THEN None
                                 ELSE IF collapsed' THEN "true" ELSE "false"]_vars
    /\ [][clock' # clock => /\ storage' = storage
                             /\ collapsed' = (isMobile' \/ storage = "true")]_vars
    /\ [](~isMobile => collapsed = (storage = "true"))

\* The second coordinator on a wide viewport found the "false" that two
\* toggles of an earlier one left, and starts expanded.
C26_Witness ==
    /\ clock = 1
    /\ ~isMobile
    /\ probe = Found("false")
    /\ storage = "false"
    /\ ~collapsed

\* --------------------------------------------------- claims on teardown
Destroyed(i) == phase[i] = "unmounted"

\* The timeout of clear() call q fires.
Fired(q) == q \in 1..Len(timers) /\ timers' = DropDue(timers, q) /\ clears' = clears

\* After teardown the tick is never set again and makes no progress, and a
\* remove directive to the identifier reaches no controller.
TickAndDirectivesStop ==
    /\ [][\A i \in Ids : Destroyed(i) =>
             /\ Destroyed(i)'
             /\ ~interval'[i]
             /\ progress'[i] = progress[i]
             /\ advances'[i] = advances[i]]_vars
    /\ [][\A q \in 1..Len(timers) :
             (Fired(q) /\ Destroyed(timers[q][Due(timers[q])].to)) =>
                 UNCHANGED <<closeVars, toasts, closed, phase, interval, progress, loading,
                             handler, collapsed>>]_vars

\* C27: teardown runs on every destruction path, so that once the controller
\* is destroyed nothing acts on behalf of the notification any more: no event
\* of it is emitted, no close sequence of it starts or completes.
C27_NothingActsAfterTeardown ==
    [][\A i \in Ids : Destroyed(i) =>
          /\ events'[i] = events[i]
          /\ closed'[i] = closed[i]
          /\ leave'[i] = leave[i]
          /\ closing'[i] = closing[i]]_vars

\* ---------------------------------------------- claims on unknown keys
\* C29: removeToast with an unknown container or an absent identifier leaves
\* every container's notifications and options as they were, getOptions of a
\* container without an entry is the empty object, and a directive emitted to
\* an identifier with no subscribed controller changes nothing but the
\* timeout that carried it.
C29_UnknownKeys ==
    /\ [][(clock' # clock /\ probe'.op = "removeToast") =>
              /\ toasts' = toasts
              /\ options' = options]_vars
    /\ [](Called("getOptions") /\ options[probe.container] = Unset =>
              probe.result = EmptyOptions)
    /\ [][\A q \in 1..Len(timers) :
              (Fired(q) /\ ~subscribed(timers[q][Due(timers[q])].to)) =>
                  UNCHANGED <<toasts, options, closeVars, closed, phase, interval, progress,
                              loading, handler, collapsed, storage>>]_vars

\* clear() scheduled both notifications; the first was closed by a click and
\* removed, and the timeout addressed to it has fired since without effect.
C29_Witness ==
    /\ clears = 1
    /\ timers = << <<[to |-> 2, after |-> Stagger]>> >>
    /\ phase[1] = "unmounted"
    /\ events[1][1] = "click"
    /\ Count(events[1], "removing") = 1
    /\ Called("removeToast")
    /\ probe.container = "aux"

\* ------------------------------------------------ claims on the body class
\* C30: once a container's count watcher has run for the current count, a
\* count above 0 implies that the container's marker class is on the body,
\* also when another container is configured with the same marker class.
C30_MarkerWhileCount ==
    \A c \in Containers :
        (marker[c] # None /\ seen[c] = count(c) /\ count(c) > 0) => marker[c] \in body

\* ------------------------------------------------ claims on the close reason
\* A close sequence of i starts in this step.
Started(i) == ~closing[i] /\ closing'[i]

\* The reason that belongs to the request made in this step: the tick that
\* stops itself, the action handler that resolved, or anything else.
Origin(i) ==
    IF interval[i] /\ ~interval'[i] THEN "timer"
    ELSE IF handler[i] = "action" /\ handler'[i] = "none" THEN "action"
    ELSE "manual"

\* C31: onClose gets the reason of the request that started the close
\* sequence (timer for the tick, action for a truthy onAction, manual for
\* close(), a click and the remove directive) and a later request with
\* another reason does not change it.
C31_CloseReason ==
    /\ [](\A i \in Ids : Len(leave[i]) <= 1 /\ Len(closed[i]) <= 1)
    /\ [][\A i \in Ids : Started(i) =>
             /\ Len(leave'[i]) = 1
             /\ leave'[i][1].mode = Origin(i)]_vars
    /\ [][\A i \in Ids : leave[i] # <<>> =>
             \/ leave'[i] = leave[i] /\ closed'[i] = closed[i]
             \/ /\ leave'[i] = <<>>
                /\ closed'[i] = <<leave[i][1].mode>>]_vars

\* Closed by the timer, although a remove directive asked for a manual close
\* while the leave transition was in flight.
C31_Witness ==
    /\ closed[1] = <<"timer">>
    /\ First(events[1], "timer") = 1
    /\ First(events[1], "manual") > 0
    /\ First(events[1], "manual") < First(events[1], "onClose")

\* ------------------------------------------------- claims on the progress
\* C32: progress is 0 while loaded is false; the tick is started by the mount,
\* in the step that also starts the enter transition, and no step changes
\* progress while loaded is false.
C32_LoadedFirst ==
    /\ [](\A i \in Ids : ~loaded[i] => progress[i] = 0)
    /\ [][\A i \in Ids : (~interval[i] /\ interval'[i]) =>
             /\ phase[i] = "created" /\ phase'[i] = "mounted"
             /\ enter[i] = "none" /\ enter'[i] \in {"animating", "resolving"}]_vars
    /\ [][\A i \in Ids : ~loaded[i] => progress'[i] = progress[i]]_vars

\* The enter transition is done and the tick has advanced since.
C32_Witness ==
    \E i \in Ids : /\ enter[i] = "done"
                   /\ loaded[i]
                   /\ interval[i]
                   /\ advances[i] >= 1
                   /\ progress[i] > 0

\* ------------------------------------------- claims on Registry mutation
\* A step in which the container or a controller handles a channel event or a
\* directive: a mount (added), the start of a close sequence (removing), a
\* toggle of the collapse control or a clear() timeout (remove).
Dispatching ==
    \/ \E i \in Ids : phase[i] = "created" /\ phase'[i] = "mounted"
    \/ closing' # closing
    \/ collapsed' # collapsed
    \/ \E q \in 1..Len(timers) : Fired(q)

\* i is deleted by the continuation of its settled leave transition, and no
\* other notification is told anything in that step.
Deleted(i) ==
    /\ closing[i]
    /\ leave[i] # <<>>
    /\ leave'[i] = Tail(leave[i])
    /\ toasts' = removeToast(toasts, Box, i)
    /\ \A j \in Ids \ {i} : applied'[j] = applied[j]

\* C33: no handler of a channel event or directive inserts into or deletes
\* from the Registry: toasts is the same before and after every onAdd,
\* onRemove, toggleCollapse and remove pass, and a closing notification is
\* deleted only in a later step, after its leave transition has settled.
C33_NoReentrantMutation ==
    /\ [][Dispatching => toasts' = toasts]_vars
    /\ [][toasts' # toasts =>
             \/ \E i \in Ids : phase[i] = "absent" /\ phase'[i] = "created"
                                /\ applied' = applied
             \/ \E i \in Ids : Deleted(i)]_vars

\* The top of three in a collapsed container is closing: its removing event
\* has moved the two below forward and it is still in the Registry.
C33_Witness ==
    /\ collapsed
    /\ count(Box) = 3
    /\ closing[3] /\ InRegistry(3) /\ leave[3] # <<>>
    /\ applied[2] = "activate"
    /\ applied[1] = "secondary"

\* ----------------------------------------------- claims on the reshuffle
\* The reshuffle of a removing event leaves every notification's lifecycle
\* flags and progress alone, but for the closing flag of the one that closes.
ReshuffleFrame ==
    [][\A i \in Ids : Started(i) =>
          /\ loaded' = loaded /\ paused' = paused /\ loading' = loading
          /\ progress' = progress
          /\ \A j \in Ids \ {i} : closing'[j] = closing[j]]_vars

\* C34: the reshuffle that a notification's removing event triggers addresses
\* its siblings only: no stacking directive goes to the notification that is
\* closing and no stacking transition is started on it, and no notification's
\* loaded, paused, closing, loading or progress is changed by the reshuffle.
C34_ReshuffleDisjoint ==
    /\ [](sent.by = "onRemove" =>
              \A k \in 1..Len(sent.emits) : sent.emits[k].to # sent.who)
    /\ [][\A i \in Ids : Started(i) => applied'[i] = applied[i]]_vars
    /\ ReshuffleFrame

\* ------------------------------------------ claims on stacking directives
\* A stacking transition is started on j by a step that is not j's own mount
\* or close request.
Directed(j) ==
    /\ applied'[j] # applied[j]
    /\ phase[j] = "mounted" /\ phase'[j] = "mounted"
    /\ leave'[j] = leave[j]

C36_Monotone ==
    /\ [](\A i \in Ids : 0 <= progress[i] /\ progress[i] <= Full)
    /\ [][\A i \in Ids : progress'[i] >= progress[i]]_vars
    /\ [][\A i \in Ids : closing[i] => progress'[i] = progress[i]]_vars

\* Closed by a click half way: the tick is still set and progress stays.
C36_Witness ==
    \E i \in Ids : /\ closing[i]
                   /\ interval[i]
                   /\ progress[i] > 0 /\ progress[i] < Full
                   /\ paused[i]
                   /\ events[i][1] = "click"

\* --------------------------------------------- claims on pausing the timer
\* C37: no close sequence with reason timer starts while paused is true.
C37_NoTimerCloseWhilePaused ==
    [][\A i \in Ids : (Started(i) /\ leave'[i][1].mode = "timer") => ~paused[i]]_vars

\* ------------------------------------------------------ claims on onOpen
\* The enter continuation sets loaded and calls onOpen in this step.
Opened(i) == ~loaded[i] /\ loaded'[i]

\* C38: onOpen is invoked at most once per notification and never after that
\* notification's onClose, however the enter transition and a close started
\* during it interleave.
C38_OpenBeforeClose ==
    /\ [][\A i \in Ids : loaded[i] => loaded'[i]]_vars
    /\ [][\A i \in Ids : Opened(i) => closed[i] = <<>>]_vars

\* ------------------------------------------- claims on leaving the Registry
\* C39: a notification is deleted from the Registry only by its own close
\* sequence, when closing is true and its leave transition has settled; until
\* then it is in the container's sequence and counted; closing never goes
\* back to false.
C39_LeavesByClosing ==
    /\ [](\A i \in Ids : phase[i] \in {"created", "mounted"} =>
              /\ InRegistry(i)
              /\ count(Box) >= Cardinality({j \in Ids : phase[j] \in {"created", "mounted"}}))
    /\ [][\A i \in Ids : (InRegistry(i) /\ ~InRegistry(i)') =>
             /\ closing[i]
             /\ leave[i] # <<>>
             /\ leave'[i] = Tail(leave[i])
             /\ closed'[i] = Append(closed[i], leave[i][1].mode)]_vars
    /\ [][\A i \in Ids : closing[i] => closing'[i]]_vars

\* The first of two was closed by its timer and deleted; the second, closing
\* after a click, is still in the Registry and counted.
C39_Witness ==
    /\ phase[1] = "unmounted" /\ closing[1] /\ ~InRegistry(1)
    /\ closed[1] = <<"timer">>
    /\ closing[2] /\ leave[2] # <<>> /\ InRegistry(2)
    /\ count(Box) = 1

\* ---------------------------------------------------------- two containers
\* Two container components over the one Registry, each with its own
\* coordinator: its own channel, collapsed flag, storage entry and timeouts.
\* The notifications are plain default ones, created in either container.
PairToasts == 3      \* notifications in PairSpec, over both containers

Side == CHOOSE c \in Containers : c # Box

handlersShared(c) == Containers
\* const emitter = mitt(): the coordinators whose handlers listen on the
\* channel of container c.
handlers(c) == {c}

flagOf(c) == IF c = Box THEN collapsed ELSE peer.collapsed
timersOf(c) == IF c = Box THEN timers ELSE peer.timers
clearsOf(c) == IF c = Box THEN clears ELSE peer.clears
storageOf(c) == IF c = Box THEN storage ELSE peer.storage

\* The notifications container c holds, and the container that holds i.
Held(c) == {i \in Ids : IndexOf(toastsOf(toasts, c), i) > 0}
homeOf(i) == CHOOSE c \in Containers : i \in Held(c)

hiddenIn(c, i) ==
    LET ts == toastsOf(toasts, c)
    IN  isHidden(IndexOf(ts, i) - 1, Len(ts), flagOf(c))

\* An added event on the channel of c: what the onAdd handlers that listen
\* there emit, each from its own toasts.value and flag.
added(c) ==
    (IF Box \in handlers(c) THEN onAdd(toastsOf(toasts, Box), flagOf(Box)) ELSE <<>>)
    \o (IF Side \in handlers(c) THEN onAdd(toastsOf(toasts, Side), flagOf(Side)) ELSE <<>>)

\* A removing event on the channel of c, likewise for the onRemove handlers.
removing(c) ==
    (IF Box \in handlers(c) THEN onRemove(toastsOf(toasts, Box), flagOf(Box)) ELSE <<>>)
    \o (IF Side \in handlers(c) THEN onRemove(toastsOf(toasts, Side), flagOf(Side))
                                 ELSE <<>>)

pairFrame == <<addedAt, clock, probe, loaded, paused, loading, progress, interval, handler,
               events, advances, sent, settled, tracing, defaultOptions,
               installed, isMobile, marker, seen, body>>

\* The options a host stores for a container in PairSpec.
PairOverride == [duration |-> <<800>>, closable |-> Absent]

\* useCore().setOptions(c, options), a call that changes what is stored.
PairSetOptions(c) ==
    /\ setOptions(options, c, Object(PairOverride)) # options
    /\ options' = setOptions(options, c, Object(PairOverride))
    /\ UNCHANGED <<pairFrame, toasts, phase, closing, enter, leave, applied, collapsed,
                   timers, clears, closed, storage, peer>>

\* useToast.create with options.container = c.
PairCreate(c) ==
    LET i == 1 + Cardinality({j \in Ids : phase[j] # "absent"})
    IN  /\ i <= PairToasts
        /\ toasts' = addToast(toasts, c, Toast(i, c, Plain("default")))
        /\ phase' = [phase EXCEPT ![i] = "created"]
        /\ UNCHANGED <<pairFrame, options, closing, enter, leave, applied, collapsed, timers, clears,
                       closed, storage, peer>>

\* onMounted of a notification of either container.
PairMount(i) ==
    /\ phase[i] = "created"
    /\ \A j \in Ids : j < i => phase[j] # "created"
    /\ applied' = Deliver(applied, added(homeOf(i)))
    /\ enter' = [enter EXCEPT ![i] = IF hiddenIn(homeOf(i), i) THEN "resolving"
                                                              ELSE "animating"]
    /\ phase' = [phase EXCEPT ![i] = "mounted"]
    /\ UNCHANGED <<pairFrame, options, toasts, closing, leave, collapsed, timers, clears, closed,
                   storage, peer>>

\* _close(mode) of a notification of either container.
PairCloseBy(i, mode) ==
    /\ applied' = Deliver(applied, removing(homeOf(i)))
    /\ IF leaveRuns(i)
       THEN /\ closing' = [closing EXCEPT ![i] = TRUE]
            /\ leave' = [leave EXCEPT ![i] =
                            Append(@, [mode |-> mode,
                                       status |-> IF hiddenIn(homeOf(i), i) THEN "resolving"
                                                                            ELSE "animating"])]
       ELSE UNCHANGED <<closing, leave>>

\* close()
PairClose(i) ==
    /\ Flushed
    /\ phase[i] = "mounted"
    /\ ~(loading[i] \/ closing[i])
    /\ PairCloseBy(i, "manual")
    /\ UNCHANGED <<pairFrame, options, toasts, phase, enter, collapsed, timers, clears, closed,
                   storage, peer>>

\* The continuation of animator.leave().
PairLeaveSettle(i) ==
    /\ Flushed
    /\ leave[i] # <<>>
    /\ leave' = [leave EXCEPT ![i] = Tail(@)]
    /\ closed' = [closed EXCEPT ![i] = Append(@, Head(leave[i]).mode)]
    /\ toasts' = removeToast(toasts, homeOf(i), i)
    /\ phase' = [phase EXCEPT ![i] = "unmounted"]
    /\ applied' = [applied EXCEPT ![i] = "none"]
    /\ UNCHANGED <<pairFrame, options, closing, enter, collapsed, timers, clears, storage, peer>>

\* toggleCollapse of the component of container c.
PairToggle(c) ==
    /\ Flushed
    /\ applied' = Deliver(applied, toggleCollapse(toastsOf(toasts, c), flagOf(c)))
    /\ IF c = Box
       THEN /\ collapsed' = ~collapsed
            /\ storage' = stored(~collapsed, isMobile)
            /\ peer' = peer
       ELSE /\ peer' = [peer EXCEPT !.collapsed = ~@,
                                    !.storage = stored(~peer.collapsed, isMobile)]
            /\ UNCHANGED <<collapsed, storage>>
    /\ UNCHANGED <<pairFrame, options, toasts, phase, closing, enter, leave, timers, clears, closed>>

\* clear() of the coordinator of container c.
PairClear(c) ==
    /\ Flushed
    /\ clearsOf(c) < StackClears
    /\ LET due == clear(toastsOf(toasts, c))
           add(qs) == IF due = <<>> THEN qs ELSE Append(qs, due)
       IN  IF c = Box
           THEN /\ clears' = clears + 1
                /\ timers' = add(timers)
                /\ collapsed' = (isMobile \/ collapsed)
                /\ storage' = IF isMobile THEN stored(TRUE, isMobile) ELSE storage
                /\ peer' = peer
           ELSE /\ peer' = [peer EXCEPT !.clears = @ + 1, !.timers = add(@),
                                        !.collapsed = (isMobile \/ @),
                                        !.storage = IF isMobile THEN stored(TRUE, isMobile)
                                                                ELSE @]
                /\ UNCHANGED <<clears, timers, collapsed, storage>>
    /\ UNCHANGED <<pairFrame, options, toasts, phase, closing, enter, leave, applied, closed>>

\* A timeout of a clear() call of container c fires.
PairFire(c, q) ==
    /\ Flushed
    /\ q \in 1..Len(timersOf(c))
    /\ IF c = Box
       THEN timers' = DropDue(timers, q) /\ peer' = peer
       ELSE peer' = [peer EXCEPT !.timers = DropDue(@, q)] /\ timers' = timers
    /\ LET to == timersOf(c)[q][Due(timersOf(c)[q])].to
       IN  IF subscribed(to)
           THEN PairCloseBy(to, "manual")
           ELSE UNCHANGED <<applied, closing, leave>>
    /\ UNCHANGED <<pairFrame, options, toasts, phase, enter, collapsed, clears, closed, storage>>

PairStep(i) ==
    \/ PairMount(i)
    \/ PairClose(i)
    \/ PairLeaveSettle(i)

PairSide(c) ==
    \/ PairCreate(c)
    \/ PairToggle(c)
    \/ PairClear(c)
    \/ \E q \in 1..StackClears : PairFire(c, q)
    \/ PairSetOptions(c)

PairNext ==
    \/ \E i \in Ids : PairStep(i)
    \/ \E c \in Containers : PairSide(c)

PairSpec == StackInit /\ [][PairNext]_vars

\* ---------------------------------------------- claims on two containers
\* The lifecycle state of one notification.
Life(i) == <<phase[i], loaded[i], paused[i], closing[i], loading[i], progress[i],
             interval[i], enter[i], leave[i], applied[i], closed[i]>>

\* The step changes something of container c: its sequence, its stored
\* options, its collapsed flag, storage entry or timeouts, or one of its
\* notifications.
Touched(c) ==
    \/ toastsOf(toasts, c)' # toastsOf(toasts, c)
    \/ options'[c] # options[c]
    \/ flagOf(c)' # flagOf(c)
    \/ timersOf(c)' # timersOf(c)
    \/ clearsOf(c)' # clearsOf(c)
    \/ storageOf(c)' # storageOf(c)
    \/ \E i \in Held(c) \cup Held(c)' : Life(i)' # Life(i)

\* C40: every operation of a container (creating, closing, clearing,
\* toggling, setting options) changes that container alone: the sequence,
\* stored options, collapsed flag and the lifecycle state of the
\* notifications of the other container stay as they were, no directive of
\* one reaching a notification of the other.
C40_Isolated == [][Cardinality({c \in Containers : Touched(c)}) <= 1]_vars

\* The first container is collapsed and its top, notification 3, is closing,
\* which moved notification 1 forward; the second container, expanded, holds
\* notification 2 untouched.
C40_Witness ==
    /\ Held(Box) = {1, 3}
    /\ Held(Side) = {2}
    /\ collapsed /\ ~peer.collapsed
    /\ closing[3]
    /\ applied[1] = "activate"
    /\ phase[2] = "mounted" /\ applied[2] = "none" /\ ~closing[2]

====
